---------------------------- MODULE Spec2Model ----------------------------
(***************************************************************************)
(* Model of CLTNavMeshSystem (src/src/gameplay/CLTNavMeshSystem.cpp): the  *)
(* node pool, the open and closed lists and the A* search FindPathToo,     *)
(* with the polygon lookup it relies on.                                   *)
(*                                                                         *)
(* Numbers.  The code computes with floats; the model computes in fixed    *)
(* point, Unit sub-units per world unit, with floor rounding in midpoints  *)
(* and square roots.  A position is a triple <<x, y, z>> of integers.      *)
(*                                                                         *)
(* Polygons.  m_polygons is only ever read by the code under src/ (the     *)
(* loader that fills it is a TODO in LoadNavMesh), so the loaded polygon   *)
(* set is an input: Init draws it from the small family Meshes.            *)
(*                                                                         *)
(* Pointers.  A NavMeshPathNode* is an index into m_nodePool, NULL is 0.   *)
(* A CLTNavMeshController* is an address of the bounded heap               *)
(* 1..MaxControllers; operator new returns any address that holds no live  *)
(* controller, a freed one included.                                       *)
(*                                                                         *)
(* Specifications.  Spec runs searches only.  SystemSpec runs the world    *)
(* registry, the triggers, the position queries and searches with caller   *)
(* options, from the same constructed state.  LongRunSpec is SystemSpec    *)
(* started from a system that has already handed out almost all 2^32       *)
(* trigger ids.  QuerySpec runs the position queries, ContinueSpec adds    *)
(* ContinuePath to the searches, TimedSpec runs searches with a timeout    *)
(* option.  StepSpec runs FindPathToo one step at a time (entry, start     *)
(* node, pop, neighbor, end of iteration, loop exit) for one caller;       *)
(* ConcurrentSpec interleaves these steps of several callers, with or      *)
(* without one exclusive lock around each call.  StepFairSpec is the step  *)
(* model of a caller that keeps running once it is in a call.  FacadeSpec  *)
(* runs the queries between searches, loads and trigger registrations.     *)
(***************************************************************************)
EXTENDS Integers, Sequences, FiniteSets, TLC

VARIABLES
    m_polygons,    \* std::map<uint32_t, NavMeshPoly>: polygon id -> polygon
    m_nodePool,    \* std::vector<NavMeshPathNode*>: sequence of node records
    m_openList,    \* std::vector<NavMeshPathNode*>: sequence of pool indices
    m_closedList,  \* std::vector<NavMeshPathNode*>: sequence of pool indices
    lastCall,      \* history: the arguments of the last completed call
    lastResult,    \* history: what the last completed call returned
    prePool,       \* history: m_nodePool as it was when the last call began
    callCount      \* history: number of completed calls (capped by MaxCalls)

VARIABLES
    m_controllers,        \* std::map<uint32_t, CLTNavMeshController*>: world id -> address
    m_pActiveController,  \* CLTNavMeshController*: an address, or NULL
    controllerHeap,       \* the addresses that hold a live CLTNavMeshController
    m_triggers,           \* std::map<uint32_t, CLTNavMeshTrigger*>: trigger id -> pointer
    m_nextTriggerId,      \* uint32_t
    agentInside,          \* environment: the tracked agent is inside the trigger volumes
    activeWorldId,        \* history: the world whose load stored m_pActiveController
    maxTriggerId,         \* history: the largest trigger id returned so far (0: none)
    tickLog,              \* history: the agent at the last two ticks, notifications fired
    lastOp,               \* history: the last completed operation, whether its map
                          \*          lookup found an entry, and what it returned
    opCount               \* history: number of completed operations (capped by MaxOps)

VARIABLES
    thread,       \* per calling thread: where it is in FindPathToo, and its locals
    serialized,   \* environment: the callers wrap FindPathToo in one exclusive lock
    lockHolder    \* environment: the thread that holds that lock, or 0

searchVars == <<m_polygons, m_nodePool, m_openList, m_closedList,
                lastCall, lastResult, prePool, callCount>>

registryVars == <<m_controllers, m_pActiveController, controllerHeap, activeWorldId>>

triggerVars == <<m_triggers, m_nextTriggerId, maxTriggerId>>

tickVars == <<agentInside, tickLog>>

threadVars == <<thread, serialized, lockHolder>>

vars == <<m_polygons, m_nodePool, m_openList, m_closedList,
          lastCall, lastResult, prePool, callCount,
          m_controllers, m_pActiveController, controllerHeap, m_triggers,
          m_nextTriggerId, agentInside, activeWorldId, maxTriggerId, tickLog,
          lastOp, opCount, thread, serialized, lockHolder>>

----------------------------------------------------------------------------
(* Bounds of the model *)

\* Fixed-point sub-units per world unit.
Unit == 4

\* Number of pre-allocated pool nodes (the constructor allocates 4096).
PoolSize == 2

\* Largest explicit iteration budget a caller passes to FindPathToo.
MaxIterations == 2

\* Number of calls after which the model stops issuing new ones.
MaxCalls == 2

\* Number of heap addresses a CLTNavMeshController can be allocated at.
MaxControllers == 2

\* Largest world id a caller loads or unloads (world ids are 0..MaxWorldId).
MaxWorldId == 1

\* Number of distinct CLTNavMeshTrigger objects a caller registers.
MaxTriggers == 2

\* Number of operations after which RegistrySpec, TriggerSpec and QuerySpec
\* stop issuing new ones.
MaxOps == 4

\* Number of operations after which SystemSpec stops issuing new ones.
MaxSystemOps == 3

\* Number of pre-allocated pool nodes in StepSpec.
StepPoolSize == 3

\* Number of threads that call FindPathToo on the one CLTNavMeshSystem.
MaxThreads == 2

\* Clock ticks that one expansion of the search takes at least.
ExpansionTicks == 2

\* Number of expansions between two reads of the clock that the timeout
\* contract allows ("every N expansions").
CheckInterval == 1

----------------------------------------------------------------------------
(* Program constants *)

NULL == 0

\* m_defaultOptions.maxIterations
DefaultMaxIterations == 2000

\* m_defaultOptions.maxNodes
DefaultMaxNodes == 4096

AREA_WALKABLE == 1
AREA_INDOORS == 32
AREA_NO_NAVIGATION == 64

\* m_defaultOptions.areaFlags / excludedAreaFlags
DefaultAreaFlags == AREA_WALKABLE
DefaultExcludedAreaFlags == AREA_NO_NAVIGATION

\* m_checkNavMeshBottom(-50.0f), m_checkNavMeshTop(50.0f)
CheckNavMeshBottom == -(50 * Unit)
CheckNavMeshTop == 50 * Unit

\* const float POLY_RADIUS = 2.0f
POLY_RADIUS == 2 * Unit

\* float maxDistance = 2.0f, the default argument of FindPolygon
DefaultFindDistance == 2 * Unit

PATHFIND_SUCCESS == "PATHFIND_SUCCESS"
PATHFIND_PARTIAL == "PATHFIND_PARTIAL"
PATHFIND_NO_PATH == "PATHFIND_NO_PATH"
PATHFIND_INVALID_START == "PATHFIND_INVALID_START"
PATHFIND_INVALID_END == "PATHFIND_INVALID_END"
PATHFIND_OUT_OF_NODES == "PATHFIND_OUT_OF_NODES"

\* Not a result code: the search loop has not returned yet.
RUNNING == "RUNNING"

\* Not a result code: no call has completed yet.
NO_CALL == "NO_CALL"

----------------------------------------------------------------------------
(* uint32_t.  The model checker's integers are 32-bit and signed, so a      *)
(* uint32_t that can wrap is held as its two 16-bit halves <<hi, lo>>.      *)

\* 2^16
HalfModulus == 65536

U32(hi, lo) == <<hi, lo>>

\* x + 1 in uint32_t arithmetic
U32Inc(x) ==
    IF x[2] + 1 < HalfModulus THEN <<x[1], x[2] + 1>>
    ELSE IF x[1] + 1 < HalfModulus THEN <<x[1] + 1, 0>>
    ELSE <<0, 0>>

\* x < y on uint32_t
U32Less(x, y) == x[1] < y[1] \/ (x[1] = y[1] /\ x[2] < y[2])

----------------------------------------------------------------------------
(* CLTVector *)

Vec(x, y, z) == <<x * Unit, y * Unit, z * Unit>>

\* operator+ followed by operator*(0.5f)
Midpoint(a, b) == <<(a[1] + b[1]) \div 2, (a[2] + b[2]) \div 2, (a[3] + b[3]) \div 2>>

DistanceSquared(a, b) ==
    (a[1] - b[1]) * (a[1] - b[1]) + (a[2] - b[2]) * (a[2] - b[2])
        + (a[3] - b[3]) * (a[3] - b[3])

RECURSIVE SqrtSearch(_, _, _)
SqrtSearch(n, lo, hi) ==
    IF lo >= hi THEN lo
    ELSE LET mid == (lo + hi + 1) \div 2
         IN  IF mid * mid <= n THEN SqrtSearch(n, mid, hi)
             ELSE SqrtSearch(n, lo, mid - 1)

\* Square roots of the squared distances inside the box that holds every
\* mesh of the model, computed once.
SqrtTable == [n \in 0..(3 * (10 * Unit) * (10 * Unit)) |-> SqrtSearch(n, 0, n)]

\* std::sqrt, rounded down to a whole sub-unit
ISqrt(n) == IF n \in DOMAIN SqrtTable THEN SqrtTable[n] ELSE SqrtSearch(n, 0, n)

Distance(a, b) == ISqrt(DistanceSquared(a, b))

\* CLTVector flatPos(position.x, 0, position.z)
Flat(p) == <<p[1], 0, p[3]>>

----------------------------------------------------------------------------
(* Bit masks of area flags (uint8_t) *)

RECURSIVE BitAnd(_, _)
BitAnd(a, b) ==
    IF a = 0 \/ b = 0 THEN 0
    ELSE (a % 2) * (b % 2) + 2 * BitAnd(a \div 2, b \div 2)

----------------------------------------------------------------------------
(* The loaded polygon sets *)

\* NavMeshPoly; the height is kept in sub-units.
Poly(c, h, nb, ar) ==
    [center |-> c, height |-> h * Unit, neighbors |-> nb, area |-> ar, flags |-> 0]

\* Two mutually adjacent walkable polygons A = 1 and B = 2, and an isolated
\* polygon 4.
MeshAB ==
    (1 :> Poly(Vec(0, 0, 0), 0, <<2>>, AREA_WALKABLE)) @@
    (2 :> Poly(Vec(10, 0, 0), 0, <<1>>, AREA_WALKABLE)) @@
    (4 :> Poly(Vec(10, 0, 10), 0, <<>>, AREA_WALKABLE))

\* The same, B flagged no-navigation.
MeshABNoNav ==
    (1 :> Poly(Vec(0, 0, 0), 0, <<2>>, AREA_WALKABLE)) @@
    (2 :> Poly(Vec(10, 0, 0), 0, <<1>>, AREA_WALKABLE + AREA_NO_NAVIGATION)) @@
    (4 :> Poly(Vec(10, 0, 10), 0, <<>>, AREA_WALKABLE))

\* A cycle 1 - 2 - 3 - 1 in which 1 forks to 2 and 3, with a neighbor id (9)
\* that has no polygon.
MeshFork ==
    (1 :> Poly(Vec(0, 0, 0), 0, <<2, 3, 9>>, AREA_WALKABLE)) @@
    (2 :> Poly(Vec(10, 0, 0), 0, <<1, 3>>, AREA_WALKABLE)) @@
    (3 :> Poly(Vec(0, 0, 10), 0, <<1, 2>>, AREA_WALKABLE + AREA_INDOORS))

Meshes == {MeshAB, MeshABNoNav, MeshFork}

\* Positions a caller asks about: the four polygon centers that occur.  In
\* each mesh one of them lies on no polygon.
Positions ==
    {Vec(0, 0, 0), Vec(10, 0, 0), Vec(0, 0, 10), Vec(10, 0, 10)}

----------------------------------------------------------------------------
(* Polygon lookup *)

\* CLTNavMeshSystem::GetPolygon: found iff the id is a key of the map.
GetPolygon(polys, polyId) == polyId \in DOMAIN polys

\* CLTNavMeshSystem::IsPositionInPolygon
IsPositionInPolygon(position, poly) ==
    DistanceSquared(Flat(position), Flat(poly.center)) <= POLY_RADIUS * POLY_RADIUS

\* One turn of the loop of FindPolygon, over the polygon with key id.
FindPolygonStep(polys, position, best, id) ==
    LET poly == polys[id]
        distanceSq == DistanceSquared(Flat(position), Flat(poly.center))
    IN  IF position[2] < poly.height + CheckNavMeshBottom
           \/ position[2] > poly.height + CheckNavMeshTop
        THEN best
        ELSE IF distanceSq < best.bestDistanceSq
             THEN IF IsPositionInPolygon(position, poly)
                  THEN [bestPolyId |-> id, bestDistanceSq |-> 0]
                  ELSE IF best.bestPolyId = 0
                       THEN [bestPolyId |-> id, bestDistanceSq |-> distanceSq]
                       ELSE best
             ELSE best

\* The loop of FindPolygon over the keys in ascending order (std::map order).
RECURSIVE FindPolygonLoop(_, _, _, _)
FindPolygonLoop(polys, position, best, ids) ==
    IF ids = {} THEN best
    ELSE LET id == CHOOSE i \in ids : \A j \in ids : i <= j
         IN  FindPolygonLoop(polys, position,
                             FindPolygonStep(polys, position, best, id), ids \ {id})

\* CLTNavMeshSystem::FindPolygon
FindPolygon(polys, position, maxDistance) ==
    FindPolygonLoop(polys, position,
                    [bestPolyId |-> 0, bestDistanceSq |-> maxDistance * maxDistance],
                    DOMAIN polys).bestPolyId

----------------------------------------------------------------------------
(* Node pool *)

\* new NavMeshPathNode(); node->parent = nullptr
FreshNode ==
    [position |-> <<0, 0, 0>>, polyId |-> 0, cost |-> 0, heuristic |-> 0,
     totalCost |-> 0, parent |-> NULL]

\* CLTNavMeshSystem::AllocateNode: the first node whose parent is nullptr; the
\* node is handed out as it is, nothing in it is written.
AllocateNode(pool) ==
    IF \E i \in 1..Len(pool) : pool[i].parent = NULL
    THEN CHOOSE i \in 1..Len(pool) :
             /\ pool[i].parent = NULL
             /\ \A j \in 1..(i - 1) : pool[j].parent # NULL
    ELSE NULL

\* CLTNavMeshSystem::CalculateHeuristic
CalculateHeuristic(position, goal) == Distance(position, goal)

----------------------------------------------------------------------------
(* The A* search.  A search state is a record                              *)
(*   pool, open, closed : the three vectors                                *)
(*   iterations         : the local counter of FindPathToo                 *)
(*   pops               : number of nodes removed from the open list       *)
(*   allocs             : number of successful AllocateNode calls          *)
(*   goal               : the node handed to ReconstructPath, or NULL      *)
(*   result             : RUNNING, or the code returned                    *)

\* The closed-list scan of the neighbor loop.
InClosedList(s, neighborId) ==
    \E k \in 1..Len(s.closed) : s.pool[s.closed[k]].polyId = neighborId

\* Fault variant of ExistingNode: the scan finds nothing.
ExistingNodeNone(s, neighborId) == NULL

\* The open-list scan of the neighbor loop: the first entry for the polygon.
ExistingNode(s, neighborId) ==
    IF \E k \in 1..Len(s.open) : s.pool[s.open[k]].polyId = neighborId
    THEN s.open[CHOOSE k \in 1..Len(s.open) :
                    /\ s.pool[s.open[k]].polyId = neighborId
                    /\ \A j \in 1..(k - 1) : s.pool[s.open[j]].polyId # neighborId]
    ELSE NULL

\* Fault variant of MinElement: the last of the entries of lowest total cost.
MinElementLast(s) ==
    CHOOSE k \in 1..Len(s.open) :
        /\ \A j \in 1..Len(s.open) :
               s.pool[s.open[k]].totalCost <= s.pool[s.open[j]].totalCost
        /\ \A j \in (k + 1)..Len(s.open) :
               s.pool[s.open[j]].totalCost > s.pool[s.open[k]].totalCost

\* std::min_element over the open list by totalCost: the position of the
\* first entry that no other entry is smaller than.
MinElement(s) ==
    CHOOSE k \in 1..Len(s.open) :
        /\ \A j \in 1..Len(s.open) :
               s.pool[s.open[k]].totalCost <= s.pool[s.open[j]].totalCost
        /\ \A j \in 1..(k - 1) :
               s.pool[s.open[j]].totalCost > s.pool[s.open[k]].totalCost

\* m_openList.erase(it)
EraseAt(seq, k) == SubSeq(seq, 1, k - 1) \o SubSeq(seq, k + 1, Len(seq))

\* The "update node data" block of the neighbor loop.
UpdatedNode(neighborId, newPos, newCost, end, current) ==
    LET heuristic == CalculateHeuristic(newPos, end)
    IN  [position |-> newPos, polyId |-> neighborId, cost |-> newCost,
         heuristic |-> heuristic, totalCost |-> newCost + heuristic,
         parent |-> current]

\* Fault variant of KeepsExisting: an existing entry is always overwritten.
KeepsExistingNever(s, existingNode, newCost) == FALSE

\* if (existingNode && existingNode->cost <= newCost) continue;
KeepsExisting(s, existingNode, newCost) ==
    existingNode # NULL /\ s.pool[existingNode].cost <= newCost

\* Fault variant of SkipMissingNeighbor: the query fails.
FailOnMissingNeighbor(s) == [s EXCEPT !.result = PATHFIND_NO_PATH]

\* if (!GetPolygon(neighborId, &neighborPoly)) continue;
SkipMissingNeighbor(s) == s

\* One turn of the neighbor loop of FindPathToo, for neighborId.
ProcessNeighbor(polys, s, current, neighborId, end) ==
    IF InClosedList(s, neighborId) THEN s
    ELSE IF ~GetPolygon(polys, neighborId) THEN SkipMissingNeighbor(s)
    ELSE LET newPos == Midpoint(s.pool[current].position, polys[neighborId].center)
             newCost == s.pool[current].cost
                            + Distance(s.pool[current].position, newPos)
             existingNode == ExistingNode(s, neighborId)
         IN  IF KeepsExisting(s, existingNode, newCost) THEN s
             ELSE IF existingNode # NULL
                  THEN [s EXCEPT !.pool[existingNode] =
                            UpdatedNode(neighborId, newPos, newCost, end, current)]
                  ELSE LET neighborNode == AllocateNode(s.pool)
                       IN  IF neighborNode = NULL
                           THEN [s EXCEPT !.result = PATHFIND_OUT_OF_NODES]
                           ELSE [s EXCEPT
                                   !.open = Append(@, neighborNode),
                                   !.allocs = @ + 1,
                                   !.pool[neighborNode] =
                                       UpdatedNode(neighborId, newPos, newCost,
                                                   end, current)]

\* The neighbor loop: over currentPoly.neighbors in order, left as soon as
\* the function returns.
RECURSIVE ProcessNeighbors(_, _, _, _, _)
ProcessNeighbors(polys, s, current, neighbors, end) ==
    IF neighbors = <<>> \/ s.result # RUNNING THEN s
    ELSE ProcessNeighbors(polys,
                          ProcessNeighbor(polys, s, current, Head(neighbors), end),
                          current, Tail(neighbors), end)

\* Fault variant of LoopRuns: the iteration budget is not looked at.
LoopRunsIgnoresBudget(s, maxIterations) == s.open # <<>>

\* The loop condition of the A* main loop.
LoopRuns(s, maxIterations) ==
    s.open # <<>> /\ s.iterations < maxIterations

\* One turn of the A* main loop.
ExpandStep(polys, s, endPolyId, end) ==
    LET k == MinElement(s)
        current == s.open[k]
        popped == [s EXCEPT !.open = EraseAt(@, k),
                            !.closed = Append(@, current),
                            !.pops = @ + 1]
    IN  IF popped.pool[current].polyId = endPolyId
        THEN [popped EXCEPT !.result = PATHFIND_SUCCESS, !.goal = current]
        ELSE IF ~GetPolygon(polys, popped.pool[current].polyId)
             THEN popped   \* continue: iterations is not incremented
             ELSE LET done == ProcessNeighbors(polys, popped, current,
                                  polys[popped.pool[current].polyId].neighbors, end)
                  IN  IF done.result # RUNNING THEN done
                      ELSE [done EXCEPT !.iterations = @ + 1]

\* Fault variant of Classify: the emptiness test inverted.
ClassifyInverted(s) ==
    IF s.open = <<>> THEN PATHFIND_PARTIAL ELSE PATHFIND_NO_PATH

\* Fault variant of Classify: a search that did not reach the goal has no
\* path, whatever is left in the open list.
ClassifyAlwaysNoPath(s) == PATHFIND_NO_PATH

\* What FindPathToo returns once the loop has ended without a path.
Classify(s) ==
    IF s.open # <<>> THEN PATHFIND_PARTIAL ELSE PATHFIND_NO_PATH

\* The A* main loop and the code after it.
RECURSIVE SearchLoop(_, _, _, _, _)
SearchLoop(polys, s, endPolyId, end, maxIterations) ==
    IF s.result # RUNNING THEN s
    ELSE IF LoopRuns(s, maxIterations)
         THEN SearchLoop(polys, ExpandStep(polys, s, endPolyId, end),
                         endPolyId, end, maxIterations)
         ELSE [s EXCEPT !.result = Classify(s)]

\* The start node as FindPathToo fills it in.
StartNode(start, startPolyId, end) ==
    LET heuristic == CalculateHeuristic(start, end)
    IN  [position |-> start, polyId |-> startPolyId, cost |-> 0,
         heuristic |-> heuristic, totalCost |-> heuristic, parent |-> NULL]

\* Fault variant of CheckPositions: the end position is checked first.
CheckPositionsEndFirst(startPolyId, endPolyId) ==
    IF endPolyId = 0 THEN PATHFIND_INVALID_END
    ELSE IF startPolyId = 0 THEN PATHFIND_INVALID_START
    ELSE RUNNING

\* The position checks of FindPathToo, made before any node is allocated:
\* the code returned, or RUNNING when both positions lie on a polygon.
CheckPositions(startPolyId, endPolyId) ==
    IF startPolyId = 0 THEN PATHFIND_INVALID_START
    ELSE IF endPolyId = 0 THEN PATHFIND_INVALID_END
    ELSE RUNNING

\* Fault variant of SeedOpenList: a failed allocation of the start node is
\* reported as "no path".
SeedOpenListNoPath(s, start, startPolyId, end) ==
    LET startNode == AllocateNode(s.pool)
    IN  IF startNode = NULL
        THEN [s EXCEPT !.result = PATHFIND_NO_PATH]
        ELSE [s EXCEPT !.pool[startNode] = StartNode(start, startPolyId, end),
                       !.open = <<startNode>>,
                       !.allocs = 1]

\* Fault variant of SeedOpenList: when no node is free the pool grows by one.
SeedOpenListGrows(s, start, startPolyId, end) ==
    LET startNode == AllocateNode(s.pool)
    IN  IF startNode = NULL
        THEN [s EXCEPT !.pool = Append(@, StartNode(start, startPolyId, end)),
                       !.open = <<Len(s.pool) + 1>>,
                       !.allocs = 1]
        ELSE [s EXCEPT !.pool[startNode] = StartNode(start, startPolyId, end),
                       !.open = <<startNode>>,
                       !.allocs = 1]

\* "Initialize starting node" and "add start node to open list".
SeedOpenList(s, start, startPolyId, end) ==
    LET startNode == AllocateNode(s.pool)
    IN  IF startNode = NULL
        THEN [s EXCEPT !.result = PATHFIND_OUT_OF_NODES]
        ELSE [s EXCEPT !.pool[startNode] = StartNode(start, startPolyId, end),
                       !.open = Append(@, startNode),
                       !.allocs = 1]

\* CLTNavMeshSystem::FindPathToo, from the pool as the call finds it to the
\* search state as the call leaves it.  maxNodeCount is not read by the code.
RunFindPathToo(polys, pool, start, end, maxIterations, maxNodeCount) ==
    LET startPolyId == FindPolygon(polys, start, DefaultFindDistance)
        endPolyId == FindPolygon(polys, end, DefaultFindDistance)
        cleared == [pool |-> pool, open |-> <<>>, closed |-> <<>>, iterations |-> 0,
                    pops |-> 0, allocs |-> 0, goal |-> NULL,
                    result |-> CheckPositions(startPolyId, endPolyId)]
    IN  IF cleared.result # RUNNING THEN cleared
        ELSE SearchLoop(polys, SeedOpenList(cleared, start, startPolyId, end),
                        endPolyId, end, maxIterations)

----------------------------------------------------------------------------
(* Calling threads.  A thread is a record of where it stands in            *)
(* FindPathToo and of the locals of its call:                              *)
(*   pc            : "idle" (not in a call), "seed" (before the start node *)
(*                   is allocated), "loop" (at the loop condition),        *)
(*                   "neighbors" (in the neighbor loop)                    *)
(*   start, end, startPolyId, endPolyId, maxIterations, iterations         *)
(*   current       : the node popped last                                  *)
(*   pending       : the neighbors the neighbor loop has yet to visit      *)
(*   pops, allocs  : as in a search state                                  *)
(*   pushed        : history, the nodes this call has pushed to a list     *)
(*   expanded      : history, the polygons of the nodes this call popped   *)
(*   result        : what the thread's last call returned                  *)

Threads == 1..MaxThreads

\* A thread that has not called yet.
IdleThread ==
    [pc |-> "idle", start |-> <<0, 0, 0>>, end |-> <<0, 0, 0>>, startPolyId |-> 0,
     endPolyId |-> 0, maxIterations |-> 0, iterations |-> 0, current |-> NULL,
     pending |-> <<>>, pops |-> 0, allocs |-> 0, pushed |-> {}, expanded |-> <<>>,
     result |-> NO_CALL]

\* No thread has called, and the callers use no lock.
InitThreads ==
    /\ thread = [t \in Threads |-> IdleThread]
    /\ serialized = FALSE
    /\ lockHolder = 0

----------------------------------------------------------------------------
(* The state machine *)

\* The pool, the lists and the call histories after construction, for a pool
\* of size nodes.
ConstructedWith(size) ==
    /\ m_nodePool = [i \in 1..size |-> FreshNode]
    /\ m_openList = <<>>
    /\ m_closedList = <<>>
    /\ lastCall = [start |-> <<0, 0, 0>>, end |-> <<0, 0, 0>>, maxIterations |-> 0]
    /\ lastResult = [code |-> NO_CALL, goal |-> NULL, pops |-> 0, allocs |-> 0]
    /\ prePool = m_nodePool
    /\ callCount = 0

ConstructedSearch == ConstructedWith(PoolSize)

\* The search state after construction, over the loaded polygon set.
InitSearch ==
    /\ m_polygons \in Meshes
    /\ ConstructedSearch

\* The registry, the triggers and the histories after construction, except
\* the trigger id counter.
InitSystem ==
    /\ m_controllers = <<>>
    /\ m_pActiveController = NULL
    /\ controllerHeap = {}
    /\ m_triggers = <<>>
    /\ agentInside = FALSE
    /\ activeWorldId = {}
    /\ tickLog = [ticks |-> 0, prevInside |-> FALSE, nowInside |-> FALSE,
                  watched |-> {}, registered |-> {}, fired |-> 0]
    /\ lastOp = [op |-> NO_CALL, arg |-> 0, found |-> FALSE, ret |-> 0]
    /\ opCount = 0

\* The constructor: m_nextTriggerId(1).
Init ==
    /\ InitSearch
    /\ InitSystem
    /\ InitThreads
    /\ m_nextTriggerId = U32(0, 1)
    /\ maxTriggerId = {}

\* CLTNavMeshSystem::FindPathToo called with explicit budgets, from entry to
\* return.
FindPathToo ==
    \E start \in Positions, end \in Positions, maxIterations \in 0..MaxIterations :
        LET r == RunFindPathToo(m_polygons, m_nodePool, start, end,
                                maxIterations, DefaultMaxNodes)
        IN  /\ callCount < MaxCalls
            /\ m_nodePool' = r.pool
            /\ m_openList' = r.open
            /\ m_closedList' = r.closed
            /\ lastCall' = [start |-> start, end |-> end,
                            maxIterations |-> maxIterations]
            /\ lastResult' = [code |-> r.result, goal |-> r.goal, pops |-> r.pops,
                              allocs |-> r.allocs]
            /\ prePool' = m_nodePool
            /\ callCount' = callCount + 1
            /\ UNCHANGED <<threadVars, m_polygons, registryVars, triggerVars, tickVars, lastOp, opCount>>

\* CLTNavMeshSystem::FindPath with pOptions = nullptr: FindPathToo under
\* m_defaultOptions.maxIterations and m_defaultOptions.maxNodes.
FindPath ==
    \E start \in Positions, end \in Positions :
        LET r == RunFindPathToo(m_polygons, m_nodePool, start, end,
                                DefaultMaxIterations, DefaultMaxNodes)
        IN  /\ callCount < MaxCalls
            /\ m_nodePool' = r.pool
            /\ m_openList' = r.open
            /\ m_closedList' = r.closed
            /\ lastCall' = [start |-> start, end |-> end,
                            maxIterations |-> DefaultMaxIterations]
            /\ lastResult' = [code |-> r.result, goal |-> r.goal, pops |-> r.pops,
                              allocs |-> r.allocs]
            /\ prePool' = m_nodePool
            /\ callCount' = callCount + 1
            /\ UNCHANGED <<threadVars, m_polygons, registryVars, triggerVars, tickVars, lastOp, opCount>>

Next == FindPathToo \/ FindPath

Spec == Init /\ [][Next]_vars

----------------------------------------------------------------------------
(* The world registry *)

\* World ids a caller passes.
Worlds == 0..MaxWorldId

\* Heap addresses of controllers.
Addresses == 1..MaxControllers

\* Fault variant of MapErase: the whole map is cleared.
MapEraseAll(map, key) == [k \in {} |-> map[k]]

\* Fault variant of MapErase: nothing is erased.
MapEraseNothing(map, key) == map

\* Fault variant of MapPut: an entry already present is kept as it is.
MapPutKeepsOld(map, key, value) == map @@ (key :> value)

\* std::map::erase
MapErase(map, key) == [k \in (DOMAIN map) \ {key} |-> map[k]]

\* map[key] = value
MapPut(map, key, value) == (key :> value) @@ map

MapValues(map) == {map[k] : k \in DOMAIN map}

\* CLTNavMeshSystem::LoadNavMesh.  The controller registered for worldId, if
\* any, is deleted; operator new then returns an address that holds no live
\* controller (the one just freed included).
LoadNavMesh ==
    \E worldId \in Worlds, pController \in Addresses :
        LET found == worldId \in DOMAIN m_controllers
            heapAfterDelete ==
                IF found THEN controllerHeap \ {m_controllers[worldId]}
                ELSE controllerHeap
        IN  /\ opCount < MaxOps
            /\ pController \notin heapAfterDelete
            /\ controllerHeap' = heapAfterDelete \cup {pController}
            /\ m_controllers' = MapPut(m_controllers, worldId, pController)
            /\ IF m_pActiveController = NULL
               THEN /\ m_pActiveController' = pController
                    /\ activeWorldId' = {worldId}
               ELSE UNCHANGED <<m_pActiveController, activeWorldId>>
            /\ lastOp' = [op |-> "LoadNavMesh", arg |-> worldId, found |-> found,
                        ret |-> TRUE]
            /\ opCount' = opCount + 1
            /\ UNCHANGED <<threadVars, searchVars, triggerVars, tickVars>>

\* CLTNavMeshSystem::UnloadNavMesh
UnloadNavMesh ==
    \E worldId \in Worlds :
        /\ opCount < MaxOps
        /\ IF worldId \notin DOMAIN m_controllers
           THEN /\ lastOp' = [op |-> "UnloadNavMesh", arg |-> worldId,
                             found |-> FALSE, ret |-> FALSE]
                /\ UNCHANGED registryVars
           ELSE /\ IF m_pActiveController = m_controllers[worldId]
                   THEN /\ m_pActiveController' = NULL
                        /\ activeWorldId' = {}
                   ELSE UNCHANGED <<m_pActiveController, activeWorldId>>
                /\ controllerHeap' = controllerHeap \ {m_controllers[worldId]}
                /\ m_controllers' = MapErase(m_controllers, worldId)
                /\ lastOp' = [op |-> "UnloadNavMesh", arg |-> worldId,
                             found |-> TRUE, ret |-> TRUE]
        /\ opCount' = opCount + 1
        /\ UNCHANGED <<threadVars, searchVars, triggerVars, tickVars>>

\* CLTNavMeshSystem::Term: every controller and every trigger is deleted;
\* m_nextTriggerId is left as it is.
Term ==
    /\ opCount < MaxOps
    /\ controllerHeap' = controllerHeap \ MapValues(m_controllers)
    /\ m_controllers' = <<>>
    /\ m_pActiveController' = NULL
    /\ activeWorldId' = {}
    /\ m_triggers' = <<>>
    /\ lastOp' = [op |-> "Term", arg |-> 0, found |-> FALSE, ret |-> 0]
    /\ opCount' = opCount + 1
    /\ UNCHANGED <<threadVars, searchVars, m_nextTriggerId, maxTriggerId, tickVars>>

RegistryNext == LoadNavMesh \/ UnloadNavMesh \/ Term

RegistrySpec == Init /\ [][RegistryNext]_vars

----------------------------------------------------------------------------
(* The triggers *)

\* The CLTNavMeshTrigger objects a caller registers.
TriggerObjects == 1..MaxTriggers

\* The larger of the ids in returned (a set of at most one id) and id.
MaxId(returned, id) ==
    IF \E m \in returned : U32Less(id, m) THEN returned ELSE {id}

\* CLTNavMeshSystem::AddTrigger, for a trigger object the system does not
\* hold yet.
AddTrigger ==
    \E pTrigger \in TriggerObjects \ MapValues(m_triggers) :
        LET triggerId == m_nextTriggerId
        IN  /\ opCount < MaxOps
            /\ m_nextTriggerId' = U32Inc(m_nextTriggerId)
            /\ m_triggers' = MapPut(m_triggers, triggerId, pTrigger)
            /\ maxTriggerId' = MaxId(maxTriggerId, triggerId)
            /\ lastOp' = [op |-> "AddTrigger", arg |-> pTrigger, found |-> FALSE,
                          ret |-> triggerId]
            /\ opCount' = opCount + 1
            /\ UNCHANGED <<threadVars, searchVars, registryVars, tickVars>>

\* CLTNavMeshSystem::RemoveTrigger, for a registered id, for id 0, for the
\* largest id handed out and for the id that is handed out next.
RemoveTrigger ==
    \E triggerId \in (DOMAIN m_triggers) \cup maxTriggerId
                         \cup {U32(0, 0), m_nextTriggerId} :
        LET found == triggerId \in DOMAIN m_triggers
        IN  /\ opCount < MaxOps
            /\ m_triggers' = IF found THEN MapErase(m_triggers, triggerId)
                             ELSE m_triggers
            /\ lastOp' = [op |-> "RemoveTrigger", arg |-> triggerId, found |-> found,
                          ret |-> found]
            /\ opCount' = opCount + 1
            /\ UNCHANGED <<threadVars, searchVars, registryVars, m_nextTriggerId, maxTriggerId,
                           tickVars>>

\* CLTNavMeshSystem::UpdateTriggers: the body is empty, so no notification is
\* invoked.  tickLog keeps what the tick was given: whether the agent was
\* inside at this tick and at the one before, and the triggers registered at
\* both.
UpdateTriggers ==
    /\ opCount < MaxOps
    /\ tickLog' = [ticks |-> IF tickLog.ticks < 2 THEN tickLog.ticks + 1 ELSE 2,
                   prevInside |-> tickLog.nowInside,
                   nowInside |-> agentInside,
                   watched |-> tickLog.registered \cap DOMAIN m_triggers,
                   registered |-> DOMAIN m_triggers,
                   fired |-> 0]
    /\ lastOp' = [op |-> "UpdateTriggers", arg |-> 0, found |-> FALSE, ret |-> 0]
    /\ opCount' = opCount + 1
    /\ UNCHANGED <<threadVars, searchVars, registryVars, triggerVars, agentInside>>

\* The external object system moves the tracked agent into or out of the
\* trigger volumes.
MoveAgent ==
    /\ agentInside' = ~agentInside
    /\ UNCHANGED <<threadVars, searchVars, registryVars, triggerVars, tickLog, lastOp, opCount>>

TriggerNext == AddTrigger \/ RemoveTrigger \/ UpdateTriggers \/ MoveAgent \/ Term

TriggerSpec == Init /\ [][TriggerNext]_vars

\* A system that has handed out every trigger id up to 2^32 - 2 and had the
\* triggers removed again: the constructed state after 2^32 - 2 AddTrigger
\* calls, each followed by RemoveTrigger.
LongRunInit ==
    /\ InitSearch
    /\ InitSystem
    /\ InitThreads
    /\ m_nextTriggerId = U32(HalfModulus - 1, HalfModulus - 1)
    /\ maxTriggerId = {U32(HalfModulus - 1, HalfModulus - 2)}

LongRunSpec == LongRunInit /\ [][TriggerNext]_vars

----------------------------------------------------------------------------
(* The position queries *)

\* Positions a caller asks about: the polygon centers, points at horizontal
\* distance 1, 2 and 3 from the center of polygon 1, and points on and beyond
\* the edges of its vertical band.
QueryPositions ==
    Positions \cup {Vec(1, 0, 0), Vec(2, 0, 0), Vec(3, 0, 0),
                    Vec(0, 50, 0), Vec(0, 51, 0), Vec(0, -50, 0)}

\* CLTNavMeshSystem::IsPositionValid, with polyId given: the return value and
\* what is stored through polyId.
IsPositionValid ==
    \E position \in QueryPositions :
        LET foundPolyId == FindPolygon(m_polygons, position, DefaultFindDistance)
        IN  /\ opCount < MaxOps
            /\ lastOp' = [op |-> "IsPositionValid", arg |-> position,
                          found |-> foundPolyId # 0,
                          ret |-> [valid |-> foundPolyId # 0, polyId |-> foundPolyId]]
            /\ opCount' = opCount + 1
            /\ UNCHANGED <<threadVars, searchVars, registryVars, triggerVars, tickVars>>

\* Fault variant of IsIndoorsArea: any area bit counts.
IsIndoorsAreaAny(poly) == poly.area # 0

\* (poly.area & AREA_INDOORS) != 0
IsIndoorsArea(poly) == BitAnd(poly.area, AREA_INDOORS) # 0

\* CLTNavMeshSystem::IsIndoors
IsIndoors ==
    \E position \in QueryPositions :
        LET polyId == FindPolygon(m_polygons, position, DefaultFindDistance)
            indoors == IF polyId = 0 THEN FALSE
                       ELSE IF ~GetPolygon(m_polygons, polyId) THEN FALSE
                       ELSE IsIndoorsArea(m_polygons[polyId])
        IN  /\ opCount < MaxOps
            /\ lastOp' = [op |-> "IsIndoors", arg |-> position,
                          found |-> polyId # 0, ret |-> indoors]
            /\ opCount' = opCount + 1
            /\ UNCHANGED <<threadVars, searchVars, registryVars, triggerVars, tickVars>>

\* What a caller's CLTVector holds before a query writes to it.
CallerVector == Vec(7, 7, 7)

\* Search distances a caller passes: the default 2.0, and 12.0.
SearchDistances == {DefaultFindDistance, 12 * Unit}

\* Fault variant of ProjectOntoPolygon: the position is moved to the
\* polygon's center.
ProjectOntoCenter(position, poly) ==
    <<poly.center[1], poly.height, poly.center[3]>>

\* *pResult = position; pResult->y = poly.height
ProjectOntoPolygon(position, poly) ==
    <<position[1], poly.height, position[3]>>

\* CLTNavMeshSystem::FindNearestValidPosition: the return value and what
\* *pResult holds afterwards.
FindNearestValidPosition ==
    \E position \in QueryPositions, maxDistance \in SearchDistances :
        LET polyId == FindPolygon(m_polygons, position, maxDistance)
            ok == polyId # 0 /\ GetPolygon(m_polygons, polyId)
            result == IF ok THEN ProjectOntoPolygon(position, m_polygons[polyId])
                      ELSE CallerVector
        IN  /\ opCount < MaxOps
            /\ lastOp' = [op |-> "FindNearestValidPosition",
                          arg |-> [position |-> position, maxDistance |-> maxDistance],
                          found |-> polyId # 0,
                          ret |-> [ok |-> ok, result |-> result, polyId |-> polyId]]
            /\ opCount' = opCount + 1
            /\ UNCHANGED <<threadVars, searchVars, registryVars, triggerVars, tickVars>>

\* Radii a caller passes: 3.0 and 10.0.
Radii == {3 * Unit, 10 * Unit}

\* The keys of polys in ascending order (the iteration order of std::map).
RECURSIVE KeysInOrder(_)
KeysInOrder(ids) ==
    IF ids = {} THEN <<>>
    ELSE LET id == CHOOSE i \in ids : \A j \in ids : i <= j
         IN  <<id>> \o KeysInOrder(ids \ {id})

\* Fault variant of InRegion: the boundary of the region is left out.
InRegionStrict(poly, center, radius) ==
    DistanceSquared(poly.center, center) < radius * radius

\* poly.center.DistanceSquared(center) <= radiusSq
InRegion(poly, center, radius) ==
    DistanceSquared(poly.center, center) <= radius * radius

\* CLTNavMeshSystem::GetPolygonsInRegion: the polygons pushed to *pPolygons,
\* in map order.
GetPolygonsInRegion(polys, center, radius) ==
    SelectSeq([k \in 1..Cardinality(DOMAIN polys) |->
                  polys[KeysInOrder(DOMAIN polys)[k]]],
              LAMBDA poly : InRegion(poly, center, radius))

\* CLTNavMeshSystem::GetRandomPosition: the return value and what *pResult
\* holds afterwards.  rand() % numPolys is any index of the vector.
GetRandomPosition ==
    \E center \in QueryPositions, radius \in Radii :
        LET polygons == GetPolygonsInRegion(m_polygons, center, radius)
            numPolys == Len(polygons)
        IN  /\ opCount < MaxOps
            /\ \E randomIndex \in 0..(IF numPolys = 0 THEN 0 ELSE numPolys - 1) :
                   lastOp' = [op |-> "GetRandomPosition",
                              arg |-> [center |-> center, radius |-> radius],
                              found |-> numPolys # 0,
                              ret |-> IF numPolys = 0
                                      THEN [ok |-> FALSE, result |-> CallerVector]
                                      ELSE [ok |-> TRUE,
                                            result |-> polygons[randomIndex + 1].center]]
            /\ opCount' = opCount + 1
            /\ UNCHANGED <<threadVars, searchVars, registryVars, triggerVars, tickVars>>

\* Two mutually adjacent polygons at height 3, the second one indoors.
MeshRaised ==
    (1 :> Poly(Vec(0, 3, 0), 3, <<2>>, AREA_WALKABLE)) @@
    (2 :> Poly(Vec(10, 3, 0), 3, <<1>>, AREA_WALKABLE + AREA_INDOORS))

\* Two mutually adjacent polygons at different heights; the one with the
\* lower id lies further from the origin.
MeshTerrace ==
    (1 :> Poly(Vec(10, 0, 0), 0, <<2>>, AREA_WALKABLE)) @@
    (2 :> Poly(Vec(0, 1, 0), 1, <<1>>, AREA_WALKABLE))

\* The constructed system over a polygon set of Meshes, over MeshRaised or
\* over MeshTerrace.
QueryInit ==
    /\ m_polygons \in Meshes \cup {MeshRaised, MeshTerrace}
    /\ ConstructedSearch
    /\ InitSystem
    /\ InitThreads
    /\ m_nextTriggerId = U32(0, 1)
    /\ maxTriggerId = {}

QueryNext ==
    \/ IsPositionValid
    \/ IsIndoors
    \/ FindNearestValidPosition
    \/ GetRandomPosition

QuerySpec == QueryInit /\ [][QueryNext]_vars

----------------------------------------------------------------------------
(* Searches with caller options, and the whole system *)

\* The PathFindOptions a caller passes: the default iteration budget with a
\* node cap of one node and with the default node cap.  The other fields are
\* not read by FindPath.
OptionSets ==
    {[maxIterations |-> DefaultMaxIterations, maxNodes |-> n] :
        n \in {1, DefaultMaxNodes}}

\* CLTNavMeshSystem::FindPath with pOptions given: FindPathToo under
\* options.maxIterations and options.maxNodes.  The searches start on
\* polygon 1.
FindPathWithOptions ==
    \E start \in {Vec(0, 0, 0)}, end \in Positions, options \in OptionSets :
        LET r == RunFindPathToo(m_polygons, m_nodePool, start, end,
                                options.maxIterations, options.maxNodes)
        IN  /\ opCount < MaxOps
            /\ callCount < MaxCalls
            /\ m_nodePool' = r.pool
            /\ m_openList' = r.open
            /\ m_closedList' = r.closed
            /\ lastCall' = [start |-> start, end |-> end,
                            maxIterations |-> options.maxIterations]
            /\ lastResult' = [code |-> r.result, goal |-> r.goal, pops |-> r.pops,
                              allocs |-> r.allocs]
            /\ prePool' = m_nodePool
            /\ callCount' = callCount + 1
            /\ lastOp' = [op |-> "FindPathWithOptions", arg |-> options,
                          found |-> FALSE, ret |-> r.result]
            /\ opCount' = opCount + 1
            /\ UNCHANGED <<threadVars, m_polygons, registryVars, triggerVars, tickVars>>

SystemNext ==
    /\ opCount < MaxSystemOps
    /\ \/ FindPathWithOptions
       \/ LoadNavMesh
       \/ UnloadNavMesh
       \/ AddTrigger
       \/ RemoveTrigger
       \/ Term

SystemSpec == Init /\ [][SystemNext]_vars

----------------------------------------------------------------------------
(* The query facade next to the operations that change the system *)

\* CLTNavMeshSystem::RayCast: a placeholder that reports no hit.
RayCast ==
    \E start \in Positions, end \in Positions :
        /\ opCount < MaxOps
        /\ lastOp' = [op |-> "RayCast", arg |-> [start |-> start, end |-> end],
                      found |-> FALSE,
                      ret |-> [ok |-> FALSE,
                               result |-> [hit |-> FALSE, position |-> end,
                                           normal |-> Vec(0, 1, 0),
                                           distance |-> Distance(start, end),
                                           polyId |-> 0]]]
        /\ opCount' = opCount + 1
        /\ UNCHANGED <<threadVars, searchVars, registryVars, triggerVars, tickVars>>

\* Polygon ids a caller asks for: two that occur and one that does not.
PolygonIds == {1, 2, 9}

\* Fault variant of FindInMap: the lookup is made with operator[], which
\* inserts a value-initialized polygon under a key that is missing.
FindBySubscript(polys, polyId) ==
    IF polyId \in DOMAIN polys THEN polys
    ELSE (polyId :> Poly(Vec(0, 0, 0), 0, <<>>, 0)) @@ polys

\* m_polygons after m_polygons.find(polyId): as it was.
FindInMap(polys, polyId) == polys

\* CLTNavMeshSystem::GetPolygon as a call of its own: the return value and
\* what *pPoly holds afterwards (0: not written).
GetPolygonCall ==
    \E polyId \in PolygonIds :
        LET found == GetPolygon(m_polygons, polyId)
        IN  /\ opCount < MaxOps
            /\ m_polygons' = FindInMap(m_polygons, polyId)
            /\ lastOp' = [op |-> "GetPolygon", arg |-> polyId, found |-> found,
                          ret |-> [ok |-> found,
                                   result |-> IF found THEN m_polygons[polyId] ELSE 0]]
            /\ opCount' = opCount + 1
            /\ UNCHANGED <<threadVars, m_nodePool, m_openList, m_closedList, lastCall,
                           lastResult, prePool, callCount, registryVars, triggerVars,
                           tickVars>>

\* CLTNavMeshSystem::GetPolygonsInRegion as a call of its own: the return
\* value and what *pPolygons holds afterwards.
GetPolygonsInRegionCall ==
    \E center \in Positions, radius \in Radii :
        LET polygons == GetPolygonsInRegion(m_polygons, center, radius)
        IN  /\ opCount < MaxOps
            /\ lastOp' = [op |-> "GetPolygonsInRegion",
                          arg |-> [center |-> center, radius |-> radius],
                          found |-> polygons # <<>>,
                          ret |-> [ok |-> TRUE, result |-> polygons]]
            /\ opCount' = opCount + 1
            /\ UNCHANGED <<threadVars, searchVars, registryVars, triggerVars,
                           tickVars>>

\* The queries of the facade.
FacadeQuery ==
    \/ IsPositionValid
    \/ IsIndoors
    \/ FindNearestValidPosition
    \/ RayCast
    \/ GetRandomPosition
    \/ GetPolygonCall
    \/ GetPolygonsInRegionCall

\* The constructed system over MeshFork.
FacadeInit ==
    /\ m_polygons = MeshFork
    /\ ConstructedSearch
    /\ InitSystem
    /\ InitThreads
    /\ m_nextTriggerId = U32(0, 1)
    /\ maxTriggerId = {}

\* What the callers ask the facade here: about the positions of Positions,
\* with the default search distance and the smaller radius, and for rays
\* from the origin.
FacadeInputs(op) ==
    CASE op.op \in {"IsPositionValid", "IsIndoors"} -> op.arg \in Positions
      [] op.op = "FindNearestValidPosition" ->
             op.arg.position \in Positions /\ op.arg.maxDistance = DefaultFindDistance
      [] op.op = "RayCast" -> op.arg.start = Vec(0, 0, 0)
      [] op.op \in {"GetRandomPosition", "GetPolygonsInRegion"} ->
             op.arg.center \in Positions /\ op.arg.radius = 3 * Unit
      [] OTHER -> TRUE

\* Queries between searches, loads and trigger registrations.
FacadeNext ==
    /\ opCount < MaxSystemOps
    /\ \/ FacadeQuery /\ FacadeInputs(lastOp')
       \/ FindPathWithOptions
       \/ LoadNavMesh
       \/ AddTrigger

FacadeSpec == FacadeInit /\ [][FacadeNext]_vars

----------------------------------------------------------------------------
(* Continuation of a paused search *)

\* CLTNavMeshSystem::ContinuePath: the body returns PATHFIND_NO_PATH; pPath,
\* maxIterations and maxNodeCount are not read, and the open and closed lists
\* are left as they are.
ContinuePath ==
    \E maxIterations \in 1..MaxIterations :
        /\ callCount < MaxCalls
        /\ callCount' = callCount + 1
        /\ lastOp' = [op |-> "ContinuePath", arg |-> maxIterations, found |-> FALSE,
                      ret |-> PATHFIND_NO_PATH]
        /\ opCount' = opCount + 1
        /\ UNCHANGED <<threadVars, m_polygons, m_nodePool, m_openList, m_closedList, lastCall,
                       lastResult, prePool, registryVars, triggerVars, tickVars>>

ContinueNext == FindPathToo \/ ContinuePath

ContinueSpec == Init /\ [][ContinueNext]_vars

----------------------------------------------------------------------------
(* Searches with a timeout.  Time is counted in clock ticks; an expansion  *)
(* takes ExpansionTicks of them.                                           *)

\* The PathFindOptions a caller passes: the default budgets with a timeout
\* shorter than one expansion and with one longer than four.
TimedOptionSets ==
    {[maxIterations |-> DefaultMaxIterations, maxNodes |-> DefaultMaxNodes,
      timeout |-> t] : t \in {ExpansionTicks - 1, 4 * ExpansionTicks}}

\* CLTNavMeshSystem::FindPath with pOptions given: options.timeout is not
\* passed on, and FindPathToo reads no clock.
FindPathTimed ==
    \E start \in Positions, end \in Positions, options \in TimedOptionSets :
        LET r == RunFindPathToo(m_polygons, m_nodePool, start, end,
                                options.maxIterations, options.maxNodes)
        IN  /\ callCount < MaxCalls
            /\ m_nodePool' = r.pool
            /\ m_openList' = r.open
            /\ m_closedList' = r.closed
            /\ lastCall' = [start |-> start, end |-> end,
                            maxIterations |-> options.maxIterations]
            /\ lastResult' = [code |-> r.result, goal |-> r.goal, pops |-> r.pops,
                              allocs |-> r.allocs]
            /\ prePool' = m_nodePool
            /\ callCount' = callCount + 1
            /\ lastOp' = [op |-> "FindPathTimed", arg |-> options,
                          found |-> FALSE, ret |-> r.result]
            /\ opCount' = opCount + 1
            /\ UNCHANGED <<threadVars, m_polygons, registryVars, triggerVars, tickVars>>

TimedNext == FindPathTimed

TimedSpec == Init /\ [][TimedNext]_vars

----------------------------------------------------------------------------
(* FindPathToo step by step.  The threads share m_nodePool, m_openList and *)
(* m_closedList; a step is the entry of the call up to its position        *)
(* checks, the allocation of the start node, one pop of the main loop, one *)
(* turn of the neighbor loop, the end of an iteration, or the code after   *)
(* the loop.                                                               *)

\* Iteration budgets the callers pass.
StepBudgets == {MaxIterations, DefaultMaxIterations}

\* Fault variant of ClearLists: the list is left as it is.
ClearListsKeeps(list) == list

\* m_openList.clear(); m_closedList.clear()
ClearLists(list) == <<>>

\* The search state thread t works on: the shared vectors and its locals.
SearchState(t) ==
    [pool |-> m_nodePool, open |-> m_openList, closed |-> m_closedList,
     iterations |-> thread[t].iterations, pops |-> thread[t].pops,
     allocs |-> thread[t].allocs, goal |-> NULL, result |-> RUNNING]

\* Thread t, with the locals th, returns code from FindPathToo; a caller that
\* holds the lock releases it.
ThreadReturns(t, th, code, goal) ==
    /\ thread' = [thread EXCEPT ![t] = [th EXCEPT !.pc = "idle", !.result = code]]
    /\ lockHolder' = IF lockHolder = t THEN 0 ELSE lockHolder
    /\ lastResult' = [code |-> code, goal |-> goal, pops |-> th.pops,
                      allocs |-> th.allocs]

\* Lines 179-194: a caller (with the lock, if the callers use one) enters
\* FindPathToo; the lists are cleared and the positions are checked.
EnterWith(t, starts, ends, budgets) ==
    \E start \in starts, end \in ends, maxIterations \in budgets :
        LET startPolyId == FindPolygon(m_polygons, start, DefaultFindDistance)
            endPolyId == FindPolygon(m_polygons, end, DefaultFindDistance)
            check == CheckPositions(startPolyId, endPolyId)
            th == [IdleThread EXCEPT !.pc = "seed", !.start = start, !.end = end,
                                     !.startPolyId = startPolyId,
                                     !.endPolyId = endPolyId,
                                     !.maxIterations = maxIterations,
                                     !.result = thread[t].result]
        IN  /\ thread[t].pc = "idle"
            /\ callCount < MaxCalls
            /\ serialized => lockHolder = 0
            /\ m_openList' = ClearLists(m_openList)
            /\ m_closedList' = ClearLists(m_closedList)
            /\ lastCall' = [start |-> start, end |-> end,
                            maxIterations |-> maxIterations]
            /\ prePool' = m_nodePool
            /\ callCount' = callCount + 1
            /\ IF check # RUNNING
               THEN ThreadReturns(t, th, check, NULL)
               ELSE /\ thread' = [thread EXCEPT ![t] = th]
                    /\ lockHolder' = IF serialized THEN t ELSE lockHolder
                    /\ UNCHANGED lastResult
            /\ lastOp' = [op |-> "Enter", arg |-> [thread |-> t], found |-> FALSE,
                          ret |-> check]
            /\ opCount' = opCount + 1
            /\ UNCHANGED <<m_polygons, m_nodePool, serialized, registryVars,
                           triggerVars, tickVars>>

Enter(t) == EnterWith(t, Positions, Positions, StepBudgets)

\* Lines 196-210: the start node is allocated, filled in and pushed.
Seed(t) ==
    LET th == thread[t]
        s == SeedOpenList(SearchState(t), th.start, th.startPolyId, th.end)
    IN  /\ th.pc = "seed"
        /\ IF s.result # RUNNING
           THEN /\ ThreadReturns(t, th, s.result, NULL)
                /\ UNCHANGED <<m_nodePool, m_openList>>
           ELSE /\ m_nodePool' = s.pool
                /\ m_openList' = s.open
                /\ thread' = [thread EXCEPT ![t] =
                                  [th EXCEPT !.pc = "loop", !.allocs = s.allocs,
                                             !.pushed = {s.open[Len(s.open)]}]]
                /\ UNCHANGED <<lockHolder, lastResult>>
        /\ lastOp' = [op |-> "Seed", arg |-> [thread |-> t], found |-> FALSE,
                      ret |-> s.result]
        /\ opCount' = opCount + 1
        /\ UNCHANGED <<m_polygons, m_closedList, lastCall, prePool, callCount,
                       serialized, registryVars, triggerVars, tickVars>>

\* Lines 214-238: the loop condition holds; the node of lowest total cost is
\* moved from the open list to the closed list and tested for the goal.
Pop(t) ==
    LET th == thread[t]
        s == SearchState(t)
    IN  /\ th.pc = "loop"
        /\ LoopRuns(s, th.maxIterations)
        /\ LET k == MinElement(s)
               current == m_openList[k]
               polyId == m_nodePool[current].polyId
               popped == [th EXCEPT !.pops = @ + 1, !.current = current,
                                    !.expanded = Append(@, polyId)]
           IN  /\ m_openList' = EraseAt(m_openList, k)
               /\ m_closedList' = Append(m_closedList, current)
               /\ IF polyId = th.endPolyId
                  THEN ThreadReturns(t, popped, PATHFIND_SUCCESS, current)
                  ELSE /\ thread' = [thread EXCEPT ![t] =
                                         IF ~GetPolygon(m_polygons, polyId) THEN popped
                                         ELSE [popped EXCEPT
                                                 !.pc = "neighbors",
                                                 !.pending = m_polygons[polyId].neighbors]]
                       /\ UNCHANGED <<lockHolder, lastResult>>
               /\ lastOp' = [op |-> "Pop", arg |-> [thread |-> t, selected |-> k],
                             found |-> polyId = th.endPolyId, ret |-> current]
        /\ opCount' = opCount + 1
        /\ UNCHANGED <<m_polygons, m_nodePool, lastCall, prePool, callCount,
                       serialized, registryVars, triggerVars, tickVars>>

\* Lines 241-298: one turn of the neighbor loop.
Relax(t) ==
    LET th == thread[t]
    IN  /\ th.pc = "neighbors"
        /\ th.pending # <<>>
        /\ LET neighborId == Head(th.pending)
               r == ProcessNeighbor(m_polygons, SearchState(t), th.current,
                                    neighborId, th.end)
           IN  /\ IF r.result # RUNNING
                  THEN /\ ThreadReturns(t, th, r.result, NULL)
                       /\ UNCHANGED <<m_nodePool, m_openList>>
                  ELSE /\ m_nodePool' = r.pool
                       /\ m_openList' = r.open
                       /\ thread' = [thread EXCEPT ![t] =
                                         [th EXCEPT
                                            !.pending = Tail(@),
                                            !.allocs = r.allocs,
                                            !.pushed = IF r.allocs > th.allocs
                                                       THEN @ \cup {r.open[Len(r.open)]}
                                                       ELSE @]]
                       /\ UNCHANGED <<lockHolder, lastResult>>
               /\ lastOp' = [op |-> "Relax",
                             arg |-> [thread |-> t, neighborId |-> neighborId,
                                      current |-> th.current],
                             found |-> ExistingNode(SearchState(t), neighborId) # NULL,
                             ret |-> r.result]
        /\ opCount' = opCount + 1
        /\ UNCHANGED <<m_polygons, m_closedList, lastCall, prePool, callCount,
                       serialized, registryVars, triggerVars, tickVars>>

\* Line 300: the neighbor loop is through; iterations++.
EndIteration(t) ==
    LET th == thread[t]
    IN  /\ th.pc = "neighbors"
        /\ th.pending = <<>>
        /\ thread' = [thread EXCEPT ![t] =
                          [th EXCEPT !.pc = "loop", !.iterations = @ + 1]]
        /\ lastOp' = [op |-> "EndIteration", arg |-> [thread |-> t], found |-> FALSE,
                      ret |-> 0]
        /\ opCount' = opCount + 1
        /\ UNCHANGED <<searchVars, serialized, lockHolder, registryVars, triggerVars,
                       tickVars>>

\* Lines 303-310: the loop condition fails; partial path or no path.
Finish(t) ==
    LET th == thread[t]
        s == SearchState(t)
    IN  /\ th.pc = "loop"
        /\ ~LoopRuns(s, th.maxIterations)
        /\ ThreadReturns(t, th, Classify(s), NULL)
        /\ lastOp' = [op |-> "Finish", arg |-> [thread |-> t], found |-> FALSE,
                      ret |-> Classify(s)]
        /\ opCount' = opCount + 1
        /\ UNCHANGED <<m_polygons, m_nodePool, m_openList, m_closedList, lastCall,
                       prePool, callCount, serialized, registryVars, triggerVars,
                       tickVars>>

\* A diamond 1 - 2 - 4, 1 - 3 - 4 with the diagonal 2 - 3: from 1, the
\* polygons 2 and 3 are equally far from 4.
MeshDiamond ==
    (1 :> Poly(Vec(0, 0, 0), 0, <<2, 3>>, AREA_WALKABLE)) @@
    (2 :> Poly(Vec(10, 0, 0), 0, <<3, 4, 1>>, AREA_WALKABLE)) @@
    (3 :> Poly(Vec(0, 0, 10), 0, <<2, 4, 1>>, AREA_WALKABLE)) @@
    (4 :> Poly(Vec(10, 0, 10), 0, <<2, 3>>, AREA_WALKABLE))

\* Polygon 1 with the neighbors 2 (a dead end), 3 and 5, where 3 and 5 are
\* adjacent, and an isolated polygon 4.  The edges of 1 lead one way.
MeshBranch ==
    (1 :> Poly(Vec(0, 0, 0), 0, <<2, 3, 5>>, AREA_WALKABLE)) @@
    (2 :> Poly(Vec(10, 0, 0), 0, <<>>, AREA_WALKABLE)) @@
    (3 :> Poly(Vec(0, 0, 10), 0, <<5>>, AREA_WALKABLE)) @@
    (4 :> Poly(Vec(10, 0, 10), 0, <<>>, AREA_WALKABLE)) @@
    (5 :> Poly(Vec(5, 0, 5), 0, <<3>>, AREA_WALKABLE))

\* The constructed system with a pool of StepPoolSize nodes, over a polygon
\* set of Meshes, over MeshDiamond or over MeshBranch, called by one thread.
StepInit ==
    /\ m_polygons \in Meshes \cup {MeshDiamond, MeshBranch}
    /\ ConstructedWith(StepPoolSize)
    /\ InitSystem
    /\ InitThreads
    /\ m_nextTriggerId = U32(0, 1)
    /\ maxTriggerId = {}

StepNext ==
    \E t \in {1} :
        \/ Enter(t)
        \/ Seed(t)
        \/ Pop(t)
        \/ Relax(t)
        \/ EndIteration(t)
        \/ Finish(t)

StepSpec == StepInit /\ [][StepNext]_vars

\* The steps of a call that is in flight.  The calling thread runs on: a
\* call that can take a step takes one.  Nothing makes a caller call.
StepInCall ==
    \E t \in {1} :
        Seed(t) \/ Pop(t) \/ Relax(t) \/ EndIteration(t) \/ Finish(t)

\* The constructed system with a pool of StepPoolSize nodes over one of the
\* polygon sets MeshAB and MeshFork, both with cycles.
StepFairInit ==
    /\ m_polygons \in {MeshAB, MeshFork}
    /\ ConstructedWith(StepPoolSize)
    /\ InitSystem
    /\ InitThreads
    /\ m_nextTriggerId = U32(0, 1)
    /\ maxTriggerId = {}

StepFairSpec == StepFairInit /\ [][StepNext]_vars /\ WF_vars(StepInCall)

\* The constructed system over MeshAB, called by the threads of Threads.
\* The code takes no lock anywhere; whether the callers wrap each call in one
\* exclusive lock is fixed from the start.  A step is one of the atomic
\* steps of one thread: the unsynchronized interleavings taken here are some
\* of the outcomes a build can produce for racing calls.
ConcurrentInit ==
    /\ m_polygons = MeshAB
    /\ ConstructedWith(StepPoolSize)
    /\ InitSystem
    /\ thread = [t \in Threads |-> IdleThread]
    /\ serialized \in BOOLEAN
    /\ lockHolder = 0
    /\ m_nextTriggerId = U32(0, 1)
    /\ maxTriggerId = {}

\* A racing caller asks for a path from polygon 1 to its neighbor 2.
EnterRacing(t) ==
    EnterWith(t, {Vec(0, 0, 0)}, {Vec(10, 0, 0)}, {MaxIterations})

ConcurrentNext ==
    \E t \in Threads :
        \/ EnterRacing(t)
        \/ Seed(t)
        \/ Pop(t)
        \/ Relax(t)
        \/ EndIteration(t)
        \/ Finish(t)

ConcurrentSpec == ConcurrentInit /\ [][ConcurrentNext]_vars

----------------------------------------------------------------------------
(* Path reconstruction.  ReconstructPath is a TODO in the source (it       *)
(* returns an empty CLTNavMeshPath); the path is defined here as the       *)
(* specification defines it: follow the predecessor links from the end     *)
(* node back to the root, then reverse.                                    *)

\* Whether the predecessor links from node reach a root (parent = nullptr).
\* A walk longer than the pool has revisited a node and never ends.
RECURSIVE ReachesRoot(_, _, _)
ReachesRoot(pool, node, fuel) ==
    IF pool[node].parent = NULL THEN TRUE
    ELSE IF fuel = 0 THEN FALSE
    ELSE ReachesRoot(pool, pool[node].parent, fuel - 1)

\* The waypoints from the root to node, for a node that reaches a root.
RECURSIVE ReconstructPath(_, _)
ReconstructPath(pool, node) ==
    IF node = NULL THEN <<>>
    ELSE Append(ReconstructPath(pool, pool[node].parent),
                [position |-> pool[node].position, polyId |-> pool[node].polyId])

----------------------------------------------------------------------------
(* Vocabulary of the properties *)

Range(seq) == {seq[i] : i \in 1..Len(seq)}

\* A call has completed.
Called == lastResult.code # NO_CALL

\* The polygons the last call's positions resolve to (0: none).
StartPolyId == FindPolygon(m_polygons, lastCall.start, DefaultFindDistance)
EndPolyId == FindPolygon(m_polygons, lastCall.end, DefaultFindDistance)

\* The pool nodes whose predecessor reference is the free sentinel.
FreeNodes(pool) == {i \in 1..Len(pool) : pool[i].parent = NULL}

\* The pool as the constructor leaves it.
FreshPool == [i \in 1..PoolSize |-> FreshNode]

\* The polygons reachable from the set S along neighbor edges.
RECURSIVE ReachSet(_, _)
ReachSet(polys, S) ==
    LET next == S \cup {n \in DOMAIN polys : \E q \in S : n \in Range(polys[q].neighbors)}
    IN  IF next = S THEN S ELSE ReachSet(polys, next)

Connected(polys, a, b) == b \in ReachSet(polys, {a})

\* The area test of the specification under the default masks.
AreaPasses(poly) ==
    /\ BitAnd(poly.area, DefaultAreaFlags) # 0
    /\ BitAnd(poly.area, DefaultExcludedAreaFlags) = 0

\* What the last call's query returns from the pool it found, under budget k.
ResultWith(k) ==
    RunFindPathToo(m_polygons, prePool, lastCall.start, lastCall.end, k,
                   DefaultMaxNodes).result

\* The budgets larger than the last call's.
LargerBudgets ==
    {k \in (1..(MaxIterations + 1)) \cup {DefaultMaxIterations} :
        k > lastCall.maxIterations}

\* The last call's path is one that leads from the start polygon to the end
\* polygon along neighbor edges.
LastPathIsValid ==
    /\ ReachesRoot(m_nodePool, lastResult.goal, Len(m_nodePool))
    /\ LET path == ReconstructPath(m_nodePool, lastResult.goal)
       IN  /\ path # <<>>
           /\ path[1].polyId = StartPolyId
           /\ path[Len(path)].polyId = EndPolyId
           /\ \A i \in 1..(Len(path) - 1) :
                  /\ path[i].polyId \in DOMAIN m_polygons
                  /\ path[i + 1].polyId \in Range(m_polygons[path[i].polyId].neighbors)

----------------------------------------------------------------------------
(* Properties *)

\* C1: after every completed FindPath / FindPathToo call, whatever it
\* returned, every pool node is free again (its predecessor reference is the
\* free sentinel), so the next search finds the full pool.
\* Violated: FreeNode is never called.
C1_NodesReturnedAfterSearch ==
    Called => FreeNodes(m_nodePool) = 1..Len(m_nodePool)

\* C2: when a search returns Succeeded, the predecessor links from the goal
\* node end at a root, and the reversed chain starts in the start polygon,
\* ends in the end polygon and steps only between neighboring polygons.
\* Violated: the first neighbor allocation hands out the start node again
\* (its parent is nullptr), and the node becomes its own predecessor.
C2_SucceededPathIsValid ==
    lastResult.code = PATHFIND_SUCCESS => LastPathIsValid

\* C3: a query whose start and end resolve to the same polygon returns
\* Succeeded with the one-waypoint path of that polygon, also after earlier
\* calls.  Stated for budgets of at least one iteration.
\* Violated: once earlier searches have used up the pool (C1), the query
\* returns OutOfNodes.
C3_SamePolygonSucceeds ==
    (Called /\ StartPolyId # 0 /\ StartPolyId = EndPolyId
        /\ lastCall.maxIterations >= 1)
    => /\ lastResult.code = PATHFIND_SUCCESS
       /\ ReachesRoot(m_nodePool, lastResult.goal, Len(m_nodePool))
       /\ Len(ReconstructPath(m_nodePool, lastResult.goal)) = 1
       /\ ReconstructPath(m_nodePool, lastResult.goal)[1].polyId = StartPolyId

\* C4: a query between polygons in disconnected components returns NoPath
\* within its iteration budget, also after earlier searches.  Stated for the
\* queries that return NoPath when run on the pool as constructed, so that
\* neither a small budget nor a small pool is what fails it.
\* Violated: after earlier searches (C1) the same query returns OutOfNodes.
C4_DisconnectedGivesNoPath ==
    (/\ Called
     /\ StartPolyId # 0
     /\ EndPolyId # 0
     /\ ~Connected(m_polygons, StartPolyId, EndPolyId)
     /\ RunFindPathToo(m_polygons, FreshPool, lastCall.start, lastCall.end,
                       lastCall.maxIterations, DefaultMaxNodes).result
            = PATHFIND_NO_PATH)
    => /\ lastResult.code = PATHFIND_NO_PATH
       /\ lastResult.pops <= lastCall.maxIterations

\* C5: a polygon that fails the area test (no bit of the inclusion mask, or
\* a bit of the exclusion mask) never enters the open set, so a search never
\* reaches it as its goal; with A and B adjacent and B flagged
\* AREA_NO_NAVIGATION, FindPath from A to B under the default options
\* returns NoPath.
\* Violated: FindPathToo never reads the masks.
C5_AreaFilterExcludes ==
    /\ (lastResult.code = PATHFIND_SUCCESS /\ StartPolyId # EndPolyId)
           => AreaPasses(m_polygons[EndPolyId])
    /\ (/\ Called
        /\ m_polygons = MeshABNoNav
        /\ lastCall = [start |-> Vec(0, 0, 0), end |-> Vec(10, 0, 0),
                       maxIterations |-> DefaultMaxIterations])
           => lastResult.code = PATHFIND_NO_PATH

\* C6: a search that returns Succeeded, PartialExhausted or NoPath was
\* granted no more nodes than the pool had free when the call began: a
\* search that needs more is told so, and returns OutOfNodes.
\* Violated: AllocateNode hands the start node out a second time, so that
\* with one free node A -> B returns Succeeded after two allocations.
C6_ExhaustionReported ==
    (Called /\ lastResult.code \in {PATHFIND_SUCCESS, PATHFIND_PARTIAL, PATHFIND_NO_PATH})
    => lastResult.allocs <= Cardinality(FreeNodes(prePool))

\* C7, as claimed: a call that finds no free node in the pool returns
\* OutOfNodes.
\* Violated: a call whose start or end lies on no polygon returns
\* InvalidStart or InvalidEnd before any allocation is tried.
C7_NoFreeNodeGivesOutOfNodes ==
    (Called /\ FreeNodes(prePool) = {}) => lastResult.code = PATHFIND_OUT_OF_NODES

\* C7, amended: a call that finds no free node in the pool returns
\* OutOfNodes if both positions lie on a polygon, and InvalidStart or
\* InvalidEnd otherwise.
C7_NoFreeNodeGivesOutOfNodesIfValid ==
    (Called /\ FreeNodes(prePool) = {})
    => lastResult.code =
           IF StartPolyId = 0 THEN PATHFIND_INVALID_START
           ELSE IF EndPolyId = 0 THEN PATHFIND_INVALID_END
           ELSE PATHFIND_OUT_OF_NODES

\* C7: a call with both positions valid found the pool without a free node
\* and returned OutOfNodes.
C7_Witness ==
    /\ Called
    /\ FreeNodes(prePool) = {}
    /\ StartPolyId # 0
    /\ EndPolyId # 0
    /\ lastResult.code = PATHFIND_OUT_OF_NODES

\* C8, as claimed: with a larger iteration budget, from the same pool, a
\* Succeeded result stays Succeeded, and a PartialExhausted or NoPath result
\* stays as it is or becomes Succeeded.
\* Violated: a PartialExhausted result becomes NoPath once the larger budget
\* lets the open list run empty, or OutOfNodes once it lets the pool run out.
C8_BudgetMonotonic ==
    Called =>
        \A k \in LargerBudgets :
            /\ lastResult.code = PATHFIND_SUCCESS => ResultWith(k) = PATHFIND_SUCCESS
            /\ lastResult.code \in {PATHFIND_PARTIAL, PATHFIND_NO_PATH}
                   => ResultWith(k) \in {lastResult.code, PATHFIND_SUCCESS}

\* C8, amended: with a larger iteration budget, from the same pool, a
\* Succeeded result stays Succeeded, a NoPath result stays as it is or becomes
\* Succeeded, and a PartialExhausted result stays as it is or becomes
\* Succeeded, NoPath or OutOfNodes.
C8_BudgetMonotonicAmended ==
    Called =>
        \A k \in LargerBudgets :
            /\ lastResult.code = PATHFIND_SUCCESS => ResultWith(k) = PATHFIND_SUCCESS
            /\ lastResult.code = PATHFIND_NO_PATH
                   => ResultWith(k) \in {PATHFIND_NO_PATH, PATHFIND_SUCCESS}
            /\ lastResult.code = PATHFIND_PARTIAL
                   => ResultWith(k) \in {PATHFIND_PARTIAL, PATHFIND_SUCCESS,
                                         PATHFIND_NO_PATH, PATHFIND_OUT_OF_NODES}

\* C8: a call on a pool that earlier searches have used returned
\* PartialExhausted, and a larger budget turns it into Succeeded.
C8_Witness ==
    /\ lastResult.code = PATHFIND_PARTIAL
    /\ FreeNodes(prePool) # 1..Len(prePool)
    /\ \E k \in LargerBudgets : ResultWith(k) = PATHFIND_SUCCESS

\* C9: when a search returns OutOfNodes, every node that was free when the
\* call began is free again when it returns.
\* Violated: the nodes the search filled in keep their predecessor (C1).
C9_OutOfNodesReleases ==
    lastResult.code = PATHFIND_OUT_OF_NODES
    => FreeNodes(prePool) \subseteq FreeNodes(m_nodePool)

\* C10: a start position on no polygon gives InvalidStart (whatever the end
\* is), otherwise an end position on no polygon gives InvalidEnd; such a
\* call allocates no node and leaves the pool exactly as it found it.
C10_InputErrorsConsumeNothing ==
    Called =>
        /\ StartPolyId = 0 => lastResult.code = PATHFIND_INVALID_START
        /\ (StartPolyId # 0 /\ EndPolyId = 0) => lastResult.code = PATHFIND_INVALID_END
        /\ lastResult.code \in {PATHFIND_INVALID_START, PATHFIND_INVALID_END}
               => /\ StartPolyId = 0 \/ EndPolyId = 0
                  /\ lastResult.allocs = 0
                  /\ m_nodePool = prePool

\* C10: a call with both positions on no polygon returned InvalidStart on a
\* pool that an earlier search had used.
C10_Witness ==
    /\ lastResult.code = PATHFIND_INVALID_START
    /\ StartPolyId = 0
    /\ EndPolyId = 0
    /\ FreeNodes(prePool) # 1..Len(prePool)
    /\ m_nodePool = prePool

----------------------------------------------------------------------------
(* Vocabulary of the registry properties *)

\* The loaded worlds whose controller is the one GetNavMeshController returns.
WorldsOf(controllers, pController) ==
    {w \in DOMAIN controllers : controllers[w] = pController}

\* No world is active: the active pointer is the controller of no loaded
\* world, and the world whose load stored it, if any, is no longer loaded.
NoWorldActive ==
    /\ WorldsOf(m_controllers, m_pActiveController) = {}
    /\ activeWorldId \cap DOMAIN m_controllers = {}

\* The step is a completed LoadNavMesh / UnloadNavMesh call.
LoadStep == lastOp'.op = "LoadNavMesh" /\ opCount' = opCount + 1
UnloadStep == lastOp'.op = "UnloadNavMesh" /\ opCount' = opCount + 1

----------------------------------------------------------------------------
(* Properties of the world registry *)

\* C15: a load made while no world is active makes the loaded world the
\* active one (GetNavMeshController returns its controller), and a load of a
\* different world id while some loaded world is active leaves that world
\* active.
\* Violated: after the active world was reloaded, the active pointer refers
\* to the deleted controller (C36) and is not nullptr, so once that world is
\* unloaded the next load does not become active.
C15_FirstLoadBecomesActive ==
    [][LoadStep =>
         /\ NoWorldActive => m_pActiveController' = m_controllers'[lastOp'.arg]
         /\ \A w \in WorldsOf(m_controllers, m_pActiveController) \ {lastOp'.arg} :
                /\ m_pActiveController' = m_pActiveController
                /\ m_controllers'[w] = m_pActiveController']_vars

\* C16: unloading the active world (the loaded world whose load stored the
\* active pointer) sets the active pointer to nullptr, other worlds loaded
\* or not; unloading a loaded world that is neither that world nor the one
\* the pointer refers to leaves the active pointer as it is.
\* Violated: after the active world was reloaded the pointer refers to the
\* deleted controller (C36), the comparison in UnloadNavMesh fails, and the
\* pointer is left dangling.
C16_UnloadActiveClears ==
    [][(UnloadStep /\ lastOp'.found) =>
         /\ activeWorldId = {lastOp'.arg} => m_pActiveController' = NULL
         /\ (/\ activeWorldId # {lastOp'.arg}
             /\ m_controllers[lastOp'.arg] # m_pActiveController)
                => m_pActiveController' = m_pActiveController]_vars

\* C17: a load of a world id that is already loaded replaces its controller:
\* afterwards the same world ids are registered, the id's controller is a
\* live one, the live controllers are exactly the registered ones (the old
\* instance was deleted), and every other world id keeps its controller.
C17_ReloadReplaces ==
    [][(LoadStep /\ lastOp'.arg \in DOMAIN m_controllers) =>
         /\ DOMAIN m_controllers' = DOMAIN m_controllers
         /\ m_controllers'[lastOp'.arg] \in controllerHeap'
         /\ controllerHeap' = MapValues(m_controllers')
         /\ Cardinality(controllerHeap') = Cardinality(DOMAIN m_controllers')
         /\ \A w \in (DOMAIN m_controllers) \ {lastOp'.arg} :
                m_controllers'[w] = m_controllers[w]]_vars

\* C17: a load has replaced the controller of a loaded world while another
\* world was loaded.
C17_Witness ==
    /\ lastOp.op = "LoadNavMesh"
    /\ lastOp.found
    /\ Cardinality(DOMAIN m_controllers) > 1
    /\ controllerHeap = MapValues(m_controllers)

\* C18: UnloadNavMesh returns true exactly if the world id is loaded; a
\* failed call leaves the registry, the live controllers and the active
\* pointer as they are; a successful one removes exactly that id and deletes
\* its controller.
C18_UnloadUnknownFails ==
    [][UnloadStep =>
         /\ lastOp'.ret = (lastOp'.arg \in DOMAIN m_controllers)
         /\ ~lastOp'.ret => UNCHANGED <<m_controllers, m_pActiveController,
                                       controllerHeap>>
         /\ lastOp'.ret =>
                /\ DOMAIN m_controllers' = (DOMAIN m_controllers) \ {lastOp'.arg}
                /\ \A w \in (DOMAIN m_controllers) \ {lastOp'.arg} :
                       w \in DOMAIN m_controllers' /\ m_controllers'[w] = m_controllers[w]
                /\ controllerHeap' = controllerHeap \ {m_controllers[lastOp'.arg]}]_vars

\* C18: an unload of a world id that is not loaded failed while another world
\* was loaded and active.
C18_Witness ==
    /\ lastOp.op = "UnloadNavMesh"
    /\ ~lastOp.ret
    /\ m_controllers # <<>>
    /\ m_pActiveController \in controllerHeap

----------------------------------------------------------------------------
(* Properties of the triggers *)

\* The step is a completed AddTrigger / RemoveTrigger call.
AddStep == lastOp'.op = "AddTrigger" /\ opCount' = opCount + 1
RemoveStep == lastOp'.op = "RemoveTrigger" /\ opCount' = opCount + 1

\* C12: with one trigger registered over two consecutive ticks, a tick that
\* finds the agent inside after the tick before found it outside fires
\* exactly one enter notification, and a tick that finds the agent inside
\* again fires none.
\* Violated: UpdateTriggers has an empty body and fires nothing.
C12_EnterFiresOnce ==
    (/\ lastOp.op = "UpdateTriggers"
     /\ tickLog.ticks >= 2
     /\ Cardinality(tickLog.watched) = 1
     /\ tickLog.nowInside)
    => tickLog.fired = (IF tickLog.prevInside THEN 0 ELSE 1)

\* C13: every AddTrigger returns an id greater than every id returned
\* before, whatever was removed or torn down in between.
\* Violated: m_nextTriggerId is a uint32_t that is incremented without a
\* check; after id 2^32 - 1 it wraps, the next AddTrigger returns 0 and the
\* ids start over.
C13_TriggerIdsIncrease ==
    [][AddStep => \A m \in maxTriggerId : U32Less(m, lastOp'.ret)]_vars

\* C14: RemoveTrigger returns true exactly if the id is registered; a
\* successful call removes exactly that id (so that removing it again
\* fails), a failed call leaves the registered triggers as they are.
C14_RemoveTriggerExact ==
    [][RemoveStep =>
         /\ lastOp'.ret = (lastOp'.arg \in DOMAIN m_triggers)
         /\ lastOp'.ret =>
                /\ lastOp'.arg \notin DOMAIN m_triggers'
                /\ DOMAIN m_triggers' = (DOMAIN m_triggers) \ {lastOp'.arg}
                /\ \A id \in DOMAIN m_triggers' : m_triggers'[id] = m_triggers[id]
         /\ ~lastOp'.ret => m_triggers' = m_triggers]_vars

\* C14: a RemoveTrigger of an id that was handed out earlier and is no longer
\* registered failed while another trigger was registered.
C14_Witness ==
    /\ lastOp.op = "RemoveTrigger"
    /\ ~lastOp.ret
    /\ lastOp.arg # U32(0, 0)
    /\ U32Less(lastOp.arg, m_nextTriggerId)
    /\ m_triggers # <<>>

----------------------------------------------------------------------------
(* Properties of the position queries *)

\* The containment test: the vertical coordinate within the band around the
\* polygon's height and the horizontal distance to its center at most
\* POLY_RADIUS, both inclusive.
Contains(poly, position) ==
    /\ position[2] >= poly.height + CheckNavMeshBottom
    /\ position[2] <= poly.height + CheckNavMeshTop
    /\ IsPositionInPolygon(position, poly)

\* C11: for every position that passes the containment test of a loaded
\* polygon, IsPositionValid returns true and yields that polygon's id.
\* Violated: FindPolygon only looks at polygons whose squared distance is
\* strictly below maxDistance squared, so a position at distance exactly 2.0
\* from the center, which IsPositionInPolygon accepts, is not found.
C11_ContainedPositionIsValid ==
    lastOp.op = "IsPositionValid"
    => \A id \in DOMAIN m_polygons :
           Contains(m_polygons[id], lastOp.arg)
           => lastOp.ret.valid /\ lastOp.ret.polyId = id

----------------------------------------------------------------------------
(* Properties of the whole system *)

\* The pool nodes the last search holds in its open and closed lists.
NodesHeld == Range(m_openList) \cup Range(m_closedList)

\* C19: after any sequence of searches, loads, unloads, trigger operations
\* and Term calls the pool holds the node records the constructor put into
\* it, no more and no fewer.
C19_PoolCapacityFixed ==
    /\ Len(m_nodePool) = PoolSize
    /\ DOMAIN m_nodePool = 1..PoolSize

\* C19: a search has used up the pool and returned OutOfNodes, with a world
\* loaded and a trigger registered.
C19_Witness ==
    /\ lastOp.op = "FindPathWithOptions"
    /\ lastResult.code = PATHFIND_OUT_OF_NODES
    /\ FreeNodes(m_nodePool) = {}
    /\ m_controllers # <<>>
    /\ m_triggers # <<>>
    /\ Len(m_nodePool) = PoolSize

\* C20: a search never holds more pool nodes than the node cap the caller
\* passed (options.maxNodes), also when the pool has more free nodes.
\* Violated: FindPathToo never reads maxNodeCount.
C20_NodeCapRespected ==
    lastOp.op = "FindPathWithOptions"
    => Cardinality(NodesHeld) <= lastOp.arg.maxNodes

----------------------------------------------------------------------------
(* Properties of the continuation *)

\* The step is a completed ContinuePath call.
ContinueStep == lastOp'.op = "ContinuePath" /\ opCount' = opCount + 1

\* What the paused search's query returns from the pool it found when it is
\* given its own budget and the continuation's in a single call.
CombinedResult ==
    RunFindPathToo(m_polygons, prePool, lastCall.start, lastCall.end,
                   lastCall.maxIterations + lastOp'.arg, DefaultMaxNodes).result

\* C21: ContinuePath after a search that returned PartialExhausted returns
\* what a single search under the combined iteration budget returns, whenever
\* that is Succeeded or NoPath.
\* Violated: ContinuePath is a stub that returns NoPath whatever was paused;
\* FindPathToo(A, A, 0) pauses with the start node open, one more iteration
\* would succeed, and ContinuePath(1) returns NoPath.
C21_ContinuationReachesCombinedResult ==
    [][(/\ ContinueStep
        /\ lastResult.code = PATHFIND_PARTIAL
        /\ CombinedResult \in {PATHFIND_SUCCESS, PATHFIND_NO_PATH})
       => lastOp'.ret = CombinedResult]_vars

----------------------------------------------------------------------------
(* Properties of the timeout *)

\* The expansions, of pops made, that began when the elapsed time already
\* exceeded the timeout.
ExpansionsPastTimeout(pops, timeout) ==
    Cardinality({k \in 1..pops : (k - 1) * ExpansionTicks > timeout})

\* C22: a search stops expanding once a clock check finds the timeout
\* exceeded, and the clock is checked every CheckInterval expansions, so no
\* more than CheckInterval expansions begin after the timeout was exceeded.
\* Violated: FindPath drops options.timeout and FindPathToo reads no clock; a
\* search whose timeout is over after its first expansion makes two more.
C22_TimeoutStopsExpansion ==
    lastOp.op = "FindPathTimed"
    => ExpansionsPastTimeout(lastResult.pops, lastOp.arg.timeout) <= CheckInterval

----------------------------------------------------------------------------
(* Properties of the indoors, nearest-position and random-position queries *)

\* The area byte has the indoors bit (0x20).
IndoorsBitSet(poly) == (poly.area \div 32) % 2 = 1

\* C23: IsIndoors returns true exactly if the position resolves to a polygon
\* (by the lookup every query uses) and that polygon's area has the indoors
\* bit; it returns false when no polygon contains the position, and when it
\* returns true a polygon with the indoors bit contains the position.
C23_IndoorsIffIndoorsPolygon ==
    lastOp.op = "IsIndoors"
    => LET polyId == FindPolygon(m_polygons, lastOp.arg, DefaultFindDistance)
       IN  /\ lastOp.ret = (polyId # 0 /\ IndoorsBitSet(m_polygons[polyId]))
           /\ (\A id \in DOMAIN m_polygons : ~Contains(m_polygons[id], lastOp.arg))
                  => lastOp.ret = FALSE
           /\ lastOp.ret = TRUE
                  => \E id \in DOMAIN m_polygons :
                         /\ Contains(m_polygons[id], lastOp.arg)
                         /\ IndoorsBitSet(m_polygons[id])

\* C23: IsIndoors returned true for a position on an indoors polygon of a
\* mesh that also has polygons that are not indoors.
C23_Witness ==
    /\ lastOp.op = "IsIndoors"
    /\ lastOp.ret = TRUE
    /\ \E id \in DOMAIN m_polygons : ~IndoorsBitSet(m_polygons[id])


\* C24: a successful FindNearestValidPosition leaves the horizontal
\* coordinates of the position as they are and sets the vertical one to the
\* height of the polygon found, a polygon within maxDistance whose vertical
\* band holds the position; a call that finds no polygon returns false and
\* leaves the caller's vector untouched.
C24_NearestSnapsHeightOnly ==
    lastOp.op = "FindNearestValidPosition"
    => LET position == lastOp.arg.position
           polyId == FindPolygon(m_polygons, position, lastOp.arg.maxDistance)
       IN  /\ lastOp.ret.ok = (polyId # 0)
           /\ lastOp.ret.ok =>
                  /\ lastOp.ret.result[1] = position[1]
                  /\ lastOp.ret.result[3] = position[3]
                  /\ lastOp.ret.result[2] = m_polygons[polyId].height
                  /\ position[2] >= m_polygons[polyId].height + CheckNavMeshBottom
                  /\ position[2] <= m_polygons[polyId].height + CheckNavMeshTop
                  /\ DistanceSquared(Flat(position), Flat(m_polygons[polyId].center))
                         < lastOp.arg.maxDistance * lastOp.arg.maxDistance
           /\ ~lastOp.ret.ok => lastOp.ret.result = CallerVector

\* C24: a call succeeded for a position that lies outside the polygon found,
\* off its center, at another height than the polygon's.
C24_Witness ==
    /\ lastOp.op = "FindNearestValidPosition"
    /\ lastOp.ret.ok
    /\ lastOp.ret.result[2] # lastOp.arg.position[2]
    /\ \A id \in DOMAIN m_polygons :
           /\ ~IsPositionInPolygon(lastOp.arg.position, m_polygons[id])
           /\ Flat(lastOp.arg.position) # Flat(m_polygons[id].center)


\* C25: GetRandomPosition returns false exactly when no loaded polygon has
\* its center within radius of center (squared distance at most the radius
\* squared), and leaves the caller's vector untouched then; otherwise the
\* position returned is the center of a polygon whose center is in the region.
C25_RandomPositionInRegion ==
    lastOp.op = "GetRandomPosition"
    => LET inRegion ==
               {id \in DOMAIN m_polygons :
                    DistanceSquared(m_polygons[id].center, lastOp.arg.center)
                        <= lastOp.arg.radius * lastOp.arg.radius}
       IN  /\ lastOp.ret.ok = (inRegion # {})
           /\ lastOp.ret.ok =>
                  \E id \in inRegion : lastOp.ret.result = m_polygons[id].center
           /\ ~lastOp.ret.ok => lastOp.ret.result = CallerVector

\* C25: the position returned is the center of a polygon that lies exactly on
\* the boundary of a region which holds another polygon as well.
C25_Witness ==
    /\ lastOp.op = "GetRandomPosition"
    /\ lastOp.ret.ok
    /\ DistanceSquared(lastOp.ret.result, lastOp.arg.center)
           = lastOp.arg.radius * lastOp.arg.radius
    /\ \E id \in DOMAIN m_polygons :
           DistanceSquared(m_polygons[id].center, lastOp.arg.center)
               < lastOp.arg.radius * lastOp.arg.radius

----------------------------------------------------------------------------
(* Properties of the step-by-step search *)

\* The threads that are inside FindPathToo.
InFlight == {t \in Threads : thread[t].pc # "idle"}

\* A thread has returned from a call that it made alone, from entry to
\* return: the steps gave what the call as a whole gives.
StepsAgreeWithCall ==
    (lastOp.op \in {"Enter", "Seed", "Pop", "Relax", "Finish"} /\ InFlight = {})
    => LET r == RunFindPathToo(m_polygons, prePool, lastCall.start, lastCall.end,
                               lastCall.maxIterations, DefaultMaxNodes)
       IN  /\ lastResult = [code |-> r.result, goal |-> r.goal, pops |-> r.pops,
                            allocs |-> r.allocs]
           /\ m_nodePool = r.pool
           /\ m_openList = r.open
           /\ m_closedList = r.closed


\* The pool nodes that are in the open or the closed list.
Borrowed == Range(m_openList) \cup Range(m_closedList)

\* C27: while a search is in flight, a pool node's predecessor reference is
\* the free sentinel exactly if the node is in neither the open nor the
\* closed list.
\* Violated: the start node is pushed to the open list with parent = nullptr
\* (line 207), so it counts as free while the search holds it, and the first
\* neighbor allocation hands it out again.
C27_FreeIffNotBorrowed ==
    InFlight # {}
    => \A i \in 1..Len(m_nodePool) :
           (m_nodePool[i].parent = NULL) <=> (i \notin Borrowed)

\* C28: within one search no polygon is popped for expansion twice.
\* Violated: the start node, in the closed list, is handed out again for the
\* first neighbor and its polyId is overwritten; the start polygon is then
\* in the closed list under no node, is opened again and expanded again.
C28_NoPolygonExpandedTwice ==
    \A t \in Threads :
        \A i \in 1..Len(thread[t].expanded), j \in 1..Len(thread[t].expanded) :
            i # j => thread[t].expanded[i] # thread[t].expanded[j]

\* The step is one pop of the main loop / one turn of the neighbor loop.
PopStep == lastOp'.op = "Pop" /\ opCount' = opCount + 1
RelaxStep == lastOp'.op = "Relax" /\ opCount' = opCount + 1

\* C29: a pop selects an open-list entry whose total cost no other entry is
\* below, the first such entry in the list (the list is in insertion order);
\* the entry is erased from the open list and appended to the closed list.
C29_PopsFirstMinimal ==
    [][PopStep =>
         \E k \in 1..Len(m_openList) :
             /\ m_openList[k] = lastOp'.ret
             /\ \A j \in 1..Len(m_openList) :
                    m_nodePool[m_openList[k]].totalCost
                        <= m_nodePool[m_openList[j]].totalCost
             /\ \A j \in 1..(k - 1) :
                    m_nodePool[m_openList[j]].totalCost
                        > m_nodePool[m_openList[k]].totalCost
             /\ Len(m_openList') = Len(m_openList) - 1
             /\ \A j \in 1..(k - 1) : m_openList'[j] = m_openList[j]
             /\ \A j \in k..Len(m_openList') : m_openList'[j] = m_openList[j + 1]
             /\ m_closedList' = Append(m_closedList, m_openList[k])]_vars

\* C29: a pop has selected among entries of equal total cost: an entry of
\* the selected node's total cost is still in the open list.
C29_Witness ==
    /\ lastOp.op = "Pop"
    /\ \E j \in 1..Len(m_openList) :
           /\ m_openList[j] # lastOp.ret
           /\ m_nodePool[m_openList[j]].totalCost = m_nodePool[lastOp.ret].totalCost

\* The cost of reaching the polygon neighborId over the node current: the
\* cost of current plus the distance from its position to the midpoint
\* between that position and the polygon's center.
CandidateCost(current, neighborId) ==
    m_nodePool[current].cost
        + Distance(m_nodePool[current].position,
                   Midpoint(m_nodePool[current].position,
                            m_polygons[neighborId].center))

\* The open-list entries for the polygon neighborId.
OpenEntries(neighborId) ==
    {k \in 1..Len(m_openList) : m_nodePool[m_openList[k]].polyId = neighborId}

\* C30: a turn of the neighbor loop that finds an open-list entry for the
\* neighbor with a cost at or below the candidate cost changes neither the
\* pool nor the open list; no turn removes an open-list entry or raises its
\* cost; an entry that is overwritten, and a node that is added, carries the
\* candidate cost.
C30_RelaxationNeverRaisesCost ==
    [][RelaxStep =>
         LET neighborId == lastOp'.arg.neighborId
             current == lastOp'.arg.current
             entries == IF neighborId \in DOMAIN m_polygons
                        THEN OpenEntries(neighborId) ELSE {}
         IN  /\ \A k \in entries :
                    (m_nodePool[m_openList[k]].cost
                            <= CandidateCost(current, neighborId))
                    => /\ m_nodePool' = m_nodePool
                       /\ m_openList' = m_openList
             /\ Len(m_openList') >= Len(m_openList)
             /\ \A k \in 1..Len(m_openList) :
                    /\ m_openList'[k] = m_openList[k]
                    /\ m_nodePool'[m_openList[k]].cost <= m_nodePool[m_openList[k]].cost
             /\ \A i \in 1..Len(m_nodePool) :
                    m_nodePool'[i] # m_nodePool[i]
                    => /\ m_nodePool'[i].polyId = neighborId
                       /\ m_nodePool'[i].cost = CandidateCost(current, neighborId)
                       /\ i \in Range(m_openList')]_vars

\* C30: a turn of the neighbor loop has found an open-list entry for a
\* neighbor that is not in the closed list, with a cost below the candidate
\* cost, and has left it as it was.
C30_Witness ==
    /\ lastOp.op = "Relax"
    /\ lastOp.found
    /\ lastOp.ret = RUNNING
    /\ \E k \in OpenEntries(lastOp.arg.neighborId) :
           m_nodePool[m_openList[k]].cost
               < CandidateCost(lastOp.arg.current, lastOp.arg.neighborId)
    /\ \A k \in 1..Len(m_closedList) :
           m_nodePool[m_closedList[k]].polyId # lastOp.arg.neighborId


\* Two calls in flight hold the same pool node.
NodeHeldTwice ==
    \E t \in InFlight, u \in InFlight :
        t # u /\ thread[t].pushed \cap thread[u].pushed # {}

\* The open and the closed list are not what a call in flight has put
\* there: nodes it pushed were cleared away, or the lists hold nodes it
\* never pushed.
ListsDisturbed == \E t \in InFlight : Borrowed # thread[t].pushed

Corrupted == NodeHeldTwice \/ ListsDisturbed

\* C26: when every call is made under one exclusive lock, at most one call
\* is in flight, no pool node is held by two calls and the lists hold
\* exactly the nodes the call in flight has pushed.
C26_SerializedCallsNeverCorrupt ==
    serialized => (Cardinality(InFlight) <= 1 /\ ~Corrupted)

\* C26: without a lock, two calls are in flight, both hold the same pool
\* node, and the nodes one of them pushed have been cleared from the lists.
C26_Witness ==
    /\ ~serialized
    /\ Cardinality(InFlight) = 2
    /\ NodeHeldTwice
    /\ \E t \in InFlight : ~(thread[t].pushed \subseteq Borrowed)


\* The step is the one in which thread 1 returns from FindPathToo.
ReturnStep == thread[1].pc # "idle" /\ thread'[1].pc = "idle"

\* The main loop of thread 1 has stopped on its iteration budget: entries are
\* left in the open list.
StoppedOnBudget ==
    /\ thread[1].pc = "loop"
    /\ m_openList # <<>>
    /\ thread[1].iterations >= thread[1].maxIterations

\* The main loop of thread 1 has stopped on an empty open list.
StoppedOnEmptyOpenList == thread[1].pc = "loop" /\ m_openList = <<>>

\* C31: a call whose loop has stopped on the iteration budget with entries
\* left in the open list returns PATHFIND_PARTIAL, and only such a call
\* does; a call whose loop has stopped on an empty open list returns
\* PATHFIND_NO_PATH, and only such a call does.
C31_BudgetGivesPartialEmptyGivesNoPath ==
    [][ReturnStep =>
         /\ StoppedOnBudget => thread'[1].result = PATHFIND_PARTIAL
         /\ StoppedOnEmptyOpenList => thread'[1].result = PATHFIND_NO_PATH
         /\ thread'[1].result = PATHFIND_PARTIAL => StoppedOnBudget
         /\ thread'[1].result = PATHFIND_NO_PATH => StoppedOnEmptyOpenList]_vars

\* C31: a call has used up its iteration budget with entries left in the
\* open list and has returned PATHFIND_PARTIAL.
C31_Witness ==
    /\ lastOp.op = "Finish"
    /\ thread[1].pc = "idle"
    /\ thread[1].iterations = thread[1].maxIterations
    /\ m_openList # <<>>
    /\ thread[1].result = PATHFIND_PARTIAL


\* C32: a call never removes more than maxIterations nodes from the open
\* list, and a call that has been entered returns.
C32_TerminatesWithinBudget ==
    /\ [](\A t \in Threads : thread[t].pops <= thread[t].maxIterations)
    /\ \A t \in Threads : (thread[t].pc # "idle") ~> (thread[t].pc = "idle")

\* C32: over the cyclic polygon set MeshFork a call has made as many
\* removals as its budget allows, and has returned.
C32_Witness ==
    /\ m_polygons = MeshFork
    /\ lastOp.op = "Finish"
    /\ thread[1].pc = "idle"
    /\ thread[1].pops = thread[1].maxIterations
    /\ thread[1].pops > 1


\* The polygon set without the neighbor ids that have no polygon.
WithoutMissingNeighbors(polys) ==
    [id \in DOMAIN polys |->
        [polys[id] EXCEPT !.neighbors = SelectSeq(@, LAMBDA n : n \in DOMAIN polys)]]

\* C33: a turn of the neighbor loop for an id that has no polygon changes
\* neither the pool nor the open list and does not end the call; no open
\* list entry is for such an id; and a call that has returned has returned
\* what it returns, and left the pool and the lists as it leaves them, over
\* the polygon set without these neighbor ids.
C33_MissingNeighborIsSkipped ==
    /\ [][(RelaxStep /\ lastOp'.arg.neighborId \notin DOMAIN m_polygons)
            => /\ m_nodePool' = m_nodePool
               /\ m_openList' = m_openList
               /\ thread'[1].pc = "neighbors"]_vars
    /\ [](\A k \in 1..Len(m_openList) :
              m_nodePool[m_openList[k]].polyId \in DOMAIN m_polygons)
    /\ []((lastOp.op \in {"Enter", "Seed", "Pop", "Relax", "Finish"} /\ InFlight = {})
           => LET r == RunFindPathToo(WithoutMissingNeighbors(m_polygons), prePool,
                                      lastCall.start, lastCall.end,
                                      lastCall.maxIterations, DefaultMaxNodes)
              IN  /\ lastResult.code = r.result
                  /\ lastResult.goal = r.goal
                  /\ m_nodePool = r.pool
                  /\ m_openList = r.open
                  /\ m_closedList = r.closed)

\* C33: a call has expanded a polygon that lists a neighbor id without a
\* polygon, has gone on to expand another polygon, and has found its goal.
C33_Witness ==
    /\ InFlight = {}
    /\ WithoutMissingNeighbors(m_polygons) # m_polygons
    /\ Len(thread[1].expanded) >= 2
    /\ \E n \in Range(m_polygons[thread[1].expanded[1]].neighbors) :
           n \notin DOMAIN m_polygons
    /\ thread[1].result = PATHFIND_SUCCESS


\* The cost model of the neighbor loop along a chain of neighbors: from a
\* node at position with the accumulated cost cost, on the polygon polyId,
\* the lowest accumulated cost with which a chain over polygons not yet in
\* visited arrives on endPolyId; -1 if no chain does.
RECURSIVE MinChainCost(_, _, _, _, _, _)
MinChainCost(polys, position, cost, polyId, endPolyId, visited) ==
    IF polyId = endPolyId THEN cost
    ELSE LET nexts == {n \in Range(polys[polyId].neighbors) :
                           n \in DOMAIN polys /\ n \notin visited}
             costs == {MinChainCost(polys, Midpoint(position, polys[n].center),
                                    cost + Distance(position,
                                               Midpoint(position, polys[n].center)),
                                    n, endPolyId, visited \cup {n}) : n \in nexts}
                          \ {-1}
         IN  IF costs = {} THEN -1
             ELSE CHOOSE c \in costs : \A d \in costs : c <= d

\* C34: the node a successful call has popped on the goal polygon carries
\* the lowest cost any chain of neighbors from the start polygon to the goal
\* polygon has.
\* Violated: the start node is handed out again for the first neighbor, so
\* the nodes of the other neighbors of the start polygon are computed from
\* the first neighbor's position and cost instead of the start position.
C34_FirstGoalPoppedIsCheapest ==
    (InFlight = {} /\ thread[1].result = PATHFIND_SUCCESS /\ lastResult.goal # NULL
     /\ lastResult.code = PATHFIND_SUCCESS)
    => m_nodePool[lastResult.goal].cost
           <= MinChainCost(m_polygons, thread[1].start, 0, thread[1].startPolyId,
                           thread[1].endPolyId, {thread[1].startPolyId})


\* The polygon lies in the vertical band around the position.
InBand(poly, position) ==
    /\ position[2] >= poly.height + CheckNavMeshBottom
    /\ position[2] <= poly.height + CheckNavMeshTop

\* The square of the horizontal distance from the position to the
\* polygon's center.
FlatDistanceSq(poly, position) ==
    DistanceSquared(Flat(position), Flat(poly.center))

\* The polygons FindNearestValidPosition chooses among: in the band, the
\* center horizontally within maxDistance.
Candidates(position, maxDistance) ==
    {id \in DOMAIN m_polygons :
        /\ InBand(m_polygons[id], position)
        /\ FlatDistanceSq(m_polygons[id], position) <= maxDistance * maxDistance}

\* C35: FindNearestValidPosition succeeds exactly if there is a candidate
\* polygon; it resolves to a candidate; to one that contains the position
\* if there is one, and otherwise to one whose center no other candidate's
\* center is horizontally closer than.
\* Violated: once FindPolygon holds a polygon that does not contain the
\* position, a later polygon replaces it only if it contains the position
\* (line 552), so the first candidate in id order is kept over closer ones.
C35_NearestResolvesToClosest ==
    lastOp.op = "FindNearestValidPosition"
    => LET position == lastOp.arg.position
           cands == Candidates(position, lastOp.arg.maxDistance)
           containing == {id \in cands :
                             FlatDistanceSq(m_polygons[id], position)
                                 <= POLY_RADIUS * POLY_RADIUS}
           chosen == lastOp.ret.polyId
       IN  /\ lastOp.ret.ok <=> cands # {}
           /\ lastOp.ret.ok
              => /\ chosen \in cands
                 /\ containing # {} => chosen \in containing
                 /\ containing = {}
                    => \A id \in cands :
                           FlatDistanceSq(m_polygons[chosen], position)
                               <= FlatDistanceSq(m_polygons[id], position)


\* C36: the active controller is none, or it is a live controller that is
\* registered for a loaded world.
\* Violated: LoadNavMesh for the active world deletes the registered
\* controller (lines 114-115) and leaves m_pActiveController, which is not
\* null, pointing at it (line 129).
C36_ActiveIsNoneOrRegistered ==
    \/ m_pActiveController = NULL
    \/ /\ m_pActiveController \in controllerHeap
       /\ WorldsOf(m_controllers, m_pActiveController) # {}


\* C37: no pool node is in the open list and in the closed list at the same
\* time, and none is in the open list twice.
\* Violated: the start node, popped and in the closed list, still has
\* parent = nullptr; AllocateNode returns it for the first neighbor and it
\* is pushed to the open list again.
C37_OpenAndClosedDisjoint ==
    /\ Range(m_openList) \cap Range(m_closedList) = {}
    /\ \A i \in 1..Len(m_openList), j \in 1..Len(m_openList) :
           i # j => m_openList[i] # m_openList[j]


\* The step is one in which the start node is pushed to the open list.
SeedStep ==
    lastOp'.op = "Seed" /\ lastOp'.ret = RUNNING /\ opCount' = opCount + 1

\* C38: the open list never holds two entries for one polygon id; every
\* entry has a cost of at least 0 and a total cost that is its cost plus
\* its heuristic; the entry pushed for the start polygon is the only one,
\* with cost 0 and, as total cost, the distance from start to end.
C38_OpenEntriesWellFormed ==
    /\ [](\A i \in 1..Len(m_openList) :
              /\ \A j \in 1..Len(m_openList) :
                     i # j => m_nodePool[m_openList[i]].polyId
                                 # m_nodePool[m_openList[j]].polyId
              /\ m_nodePool[m_openList[i]].cost >= 0
              /\ m_nodePool[m_openList[i]].totalCost
                     = m_nodePool[m_openList[i]].cost
                           + m_nodePool[m_openList[i]].heuristic)
    /\ [][SeedStep =>
            /\ Len(m_openList') = 1
            /\ m_nodePool'[m_openList'[1]].polyId = thread[1].startPolyId
            /\ m_nodePool'[m_openList'[1]].cost = 0
            /\ m_nodePool'[m_openList'[1]].heuristic
                   = Distance(thread[1].start, thread[1].end)
            /\ m_nodePool'[m_openList'[1]].totalCost
                   = Distance(thread[1].start, thread[1].end)]_vars

\* C38: the neighbor loop has come to a polygon that has an entry in the
\* open list, next to an entry for another polygon, both reached at a cost
\* above 0.
C38_Witness ==
    /\ lastOp.op = "Relax"
    /\ lastOp.found
    /\ InFlight # {}
    /\ Len(m_openList) >= 2
    /\ \A k \in 1..Len(m_openList) : m_nodePool[m_openList[k]].cost > 0


\* The names under which the queries of the facade are recorded.
FacadeQueries ==
    {"IsPositionValid", "IsIndoors", "FindNearestValidPosition", "RayCast",
     "GetRandomPosition", "GetPolygon", "GetPolygonsInRegion"}

\* The step is a completed query of the facade.
QueryStep == lastOp'.op \in FacadeQueries /\ opCount' = opCount + 1

\* C39: a query of the facade leaves the polygon set, the node pool, the
\* open and the closed list, the world registry, the active controller, the
\* trigger set and the next trigger id as they were.
C39_QueriesChangeNothing ==
    [][QueryStep =>
         /\ m_polygons' = m_polygons
         /\ m_nodePool' = m_nodePool
         /\ m_openList' = m_openList
         /\ m_closedList' = m_closedList
         /\ m_controllers' = m_controllers
         /\ m_pActiveController' = m_pActiveController
         /\ controllerHeap' = controllerHeap
         /\ m_triggers' = m_triggers
         /\ m_nextTriggerId' = m_nextTriggerId]_vars

\* C39: a query has been made, for an id that has no polygon, on a system
\* that has run a search and has loaded a world.
C39_Witness ==
    /\ lastOp.op = "GetPolygon"
    /\ ~lastOp.found
    /\ m_closedList # <<>>
    /\ m_nodePool # FreshPool
    /\ m_pActiveController # NULL

============================================================================
